---- MODULE Spec2Model ----
(***************************************************************************)
(* A model of pykabu-calendar's reconciliation engine                      *)
(* (earnings/calendar.py: _compute_confidence, _build_candidates) and of   *)
(* its parallel task runner (core/parallel.py: run_parallel).              *)
(*                                                                         *)
(* Timestamps are minutes since an epoch midnight: day * 1440 + minute of  *)
(* the day.  strftime("%H:%M") is the pair <<hour, minute>>.  A Python     *)
(* dict is a sequence of <<key, value>> pairs in insertion order.          *)
(***************************************************************************)
EXTENDS Integers, Sequences, FiniteSets, TLC

VARIABLES
    df_columns,     \* the columns of the DataFrame given to _build_candidates
    row,            \* the DataFrame's row: column -> Timestamp or NaT
    built,          \* whether _build_candidates has run on the row
    result,         \* the row's candidate_datetimes, datetime, confidence
    conf_args,      \* arguments of a direct _compute_confidence call
    conf_ret,       \* its return value ("" before the call)
    tasks,          \* run_parallel's tasks: name -> what the callable does
    max_workers,    \* run_parallel's max_workers
    pc,             \* where the thread calling run_parallel is
    submitted,      \* how many tasks executor.submit was called for
    work_queue,     \* the executor's queue of work items (task names)
    num_threads,    \* the executor's worker threads
    idle_semaphore, \* the executor's count of workers it takes to be idle
    running,        \* the tasks whose callable a worker is executing
    releasing,      \* workers done with an item, yet to release the semaphore
    future_state,   \* name -> "PENDING", "RUNNING" or "FINISHED"
    yielded,        \* the futures as_completed has yielded
    results,        \* the dict run_parallel returns: name -> value
    results_keys,   \* the dict's keys in insertion order
    warned,         \* the task names logged as failed
    raised,         \* whether an exception left run_parallel
    runs,           \* name -> how many times the callable was invoked
    cal_sources,    \* get_calendar's `sources` argument
    cal_include_ir, \* get_calendar's `include_ir` argument
    cal_empty,      \* the fetch tasks whose source returns an empty table
    cal_pc,         \* where get_calendar (or a direct _merge_sources call) is
    source_data,    \* the dict source -> table handed to _merge_sources
    merged,         \* the table _merge_sources returns
    cal_steps,      \* the enrichment steps get_calendar has run
    cal_out,        \* the table get_calendar returns
    obs_pc,         \* where the observation of one company is
    obs_scraper,    \* the date and the time cell of the company's scraper row
    obs_context,    \* what the company's IR page says of the announcement
    dth_arg,        \* the argument of an is_during_trading_hours call
    dth_called,     \* whether the call has returned
    dth_ret,        \* its return value
    settings,       \* config._settings: <<>> for None, else <<the Settings>>
    settings_lock,  \* config._settings_lock: "free" or the thread holding it
    allocated,      \* how many Settings objects were created (object identity)
    history,        \* the kwargs of the configure calls that assigned _settings
    global_cache,   \* cache._global_cache: <<>> for None, else <<the IRCache>>
    global_cache_lock,   \* cache._global_cache_lock
    default_client,      \* llm._default_client: <<>> for None, else <<the client>>
    client_initialized,  \* llm._client_initialized
    default_client_lock, \* llm._default_client_lock
    thread_pc,      \* thread -> where it is in the call it makes
    thread_frame,   \* thread -> the arguments and locals of its call
    thread_ret,     \* thread -> what its last call returned or raised
    calls,          \* how many calls the threads have made
    returned_id,    \* the newest Settings a returned configure call assigned
    chk_pc,         \* where check_sources is
    chk_outcomes,   \* source -> what its health check comes to
    chk_ret,        \* the list check_sources returns
    chk_raised,     \* the exception that left check_sources ("" for none)
    ir_clock,       \* the day it is, for the IR lookups of one company
    ir_cache,       \* the global IRCache's entries: code -> CacheEntry
    ir_pc,          \* where the _get_ir_datetime call is
    ir_call,        \* its argument, and what discovery and parsing gave it
    ir_log,         \* what the call has done so far, in order
    ir_ret,         \* what the last call returned
    ir_stored,      \* the datetime of the last successful parse, and its day
    ir_lookups,     \* how many _get_ir_datetime calls were made
    ic_cache,       \* IRCache._cache: code -> CacheEntry
    ic_loaded,      \* IRCache._loaded
    ic_lock,        \* IRCache._lock: "free" or the thread holding it
    ic_file,        \* the cache file: <<>> if there is none, else <<companies>>
    ic_clock,       \* the day it is, for the IRCache
    ic_pc,          \* thread -> where it is in its IRCache call
    ic_frame,       \* thread -> the arguments and locals of its call
    ic_ret,         \* thread -> what its last call returned
    ic_latest,      \* code -> the entry installed last and not removed since
    ic_calls,       \* how many IRCache calls the threads have made
    stg_pc,         \* where the get_calendar call with its three stages is
    stg_sources,    \* its `sources` argument
    stg_inputs,     \* the source tables and the per-code history and IR results
    stg_data_order, \* the sources of source_data, in insertion order
    stg_columns,    \* the columns of the merged table
    stg_rows,       \* its rows, in order
    stg_unfinished, \* tasks found unfinished when the next stage began
    stg_pool,       \* the kinds of operation given to the worker pool
    stg_main        \* the operations run by the calling thread, in order

reconVars == <<df_columns, row, built, result>>
confVars == <<conf_args, conf_ret>>
parVars ==
    <<tasks, max_workers, pc, submitted, work_queue, num_threads, idle_semaphore,
      running, releasing, future_state, yielded, results, results_keys, warned,
      raised, runs>>
calVars ==
    <<cal_sources, cal_include_ir, cal_empty, cal_pc, source_data, merged,
      cal_steps, cal_out>>
obsVars == <<obs_pc, obs_scraper, obs_context>>
tradVars == <<dth_arg, dth_called, dth_ret>>
cfgVars ==
    <<settings, settings_lock, allocated, history, global_cache,
      global_cache_lock, default_client, client_initialized,
      default_client_lock, thread_pc, thread_frame, thread_ret, calls,
      returned_id>>
\* The variables of the sub-models that came after get_calendar's, and of all
\* that came after the first three.
chkVars == <<chk_pc, chk_outcomes, chk_ret, chk_raised>>
irVars ==
    <<ir_clock, ir_cache, ir_pc, ir_call, ir_log, ir_ret, ir_stored, ir_lookups>>
icVars ==
    <<ic_cache, ic_loaded, ic_lock, ic_file, ic_clock, ic_pc, ic_frame, ic_ret,
      ic_latest, ic_calls>>
stgVars ==
    <<stg_pc, stg_sources, stg_inputs, stg_data_order, stg_columns, stg_rows,
      stg_unfinished, stg_pool, stg_main>>
tailVars == <<chkVars, irVars, icVars, stgVars>>
laterVars == <<obsVars, tradVars, cfgVars, tailVars>>
extVars == <<calVars, laterVars>>
vars == <<reconVars, confVars, parVars, extVars>>

----------------------------------------------------------------------------
(* Bounds of the model. *)

\* Calendar days the observations are drawn from.
MaxDay == 2
\* Times of day the observations are drawn from: 15:00, 15:30, 16:00, ...
MaxSlot == 3
\* Tasks given to one run_parallel call.
MaxTasks == 3
\* The greatest max_workers of a run_parallel call.
MaxWorkers == 3

----------------------------------------------------------------------------
(* Values. *)

\* pd.NaT
NaT == -1
\* Python's None (dict.get of a missing key)
None == -2

\* A DataFrame: its columns in order, and its rows keyed by the code column;
\* a row gives a cell to every column but "code".
no_table == [columns |-> <<>>, rows |-> <<>>]

\* No get_calendar and no _merge_sources call is under way.
CalIdle ==
    /\ cal_sources = <<>>
    /\ cal_include_ir = FALSE
    /\ cal_empty = {}
    /\ cal_pc = "idle"
    /\ source_data = <<>>
    /\ merged = no_table
    /\ cal_steps = {}
    /\ cal_out = no_table

\* No company is being observed.
ObsIdle ==
    /\ obs_pc = "idle"
    /\ obs_scraper = [date |-> 0, time |-> None]
    /\ obs_context = [page |-> FALSE, date |-> None, time |-> None, undetermined |-> FALSE]

\* No is_during_trading_hours call is under way.
TradIdle ==
    /\ dth_arg = NaT
    /\ dth_called = FALSE
    /\ dth_ret = FALSE

\* The threads that call into config, cache and llm.
Threads == {"main", "worker"}

\* A thread between calls, and one that has returned nothing yet.
no_frame == [op |-> "", kwargs |-> <<>>, caller |-> "", got |-> <<>>, floor |-> 0]
no_return == [op |-> "", value |-> <<>>, raised |-> "", floor |-> 0]

\* The modules as imported: no Settings, no cache, no client, the locks free,
\* no thread in a call.
CfgImported ==
    /\ settings = <<>>
    /\ settings_lock = "free"
    /\ allocated = 0
    /\ history = <<>>
    /\ global_cache = <<>>
    /\ global_cache_lock = "free"
    /\ default_client = <<>>
    /\ client_initialized = FALSE
    /\ default_client_lock = "free"
    /\ thread_pc = [t \in Threads |-> "idle"]
    /\ thread_frame = [t \in Threads |-> no_frame]
    /\ thread_ret = [t \in Threads |-> no_return]
    /\ calls = 0
    /\ returned_id = 0

\* No check_sources call is under way.
ChkIdle ==
    /\ chk_pc = "idle"
    /\ chk_outcomes = <<>>
    /\ chk_ret = <<>>
    /\ chk_raised = ""

\* A _get_ir_datetime call not yet made, and nothing returned yet.
no_lookup ==
    [eager |-> FALSE, day |-> 0, at_call |-> <<>>, page |-> <<>>, info |-> <<>>]

\* No IR lookup was made and nothing is cached.
IrIdle ==
    /\ ir_clock = 0
    /\ ir_cache = <<>>
    /\ ir_pc = "idle"
    /\ ir_call = no_lookup
    /\ ir_log = <<>>
    /\ ir_ret = NaT
    /\ ir_stored = <<>>
    /\ ir_lookups = 0

\* A thread in no IRCache call, and one that has returned nothing yet.
no_op == [op |-> "", code |-> 0, ir_url |-> "", ir_type |-> <<>>,
          last_earnings_datetime |-> <<>>, data |-> <<>>, value |-> <<>>,
          before |-> <<>>, now |-> 0]
no_op_return == [op |-> "", code |-> 0, ir_url |-> "",
                 last_earnings_datetime |-> <<>>, value |-> <<>>,
                 before |-> <<>>, now |-> 0]

\* An IRCache just constructed on a directory with no cache file.
IcIdle ==
    /\ ic_cache = <<>>
    /\ ic_loaded = FALSE
    /\ ic_lock = "free"
    /\ ic_file = <<>>
    /\ ic_clock = 0
    /\ ic_pc = [t \in Threads |-> "idle"]
    /\ ic_frame = [t \in Threads |-> no_op]
    /\ ic_ret = [t \in Threads |-> no_op_return]
    /\ ic_latest = <<>>
    /\ ic_calls = 0

\* get_calendar's inputs before they are chosen.
no_inputs == [stamps |-> <<>>, history |-> <<>>, ir |-> <<>>]

\* No staged get_calendar call is under way.
StgIdle ==
    /\ stg_pc = "idle"
    /\ stg_sources = <<>>
    /\ stg_inputs = no_inputs
    /\ stg_data_order = <<>>
    /\ stg_columns = <<>>
    /\ stg_rows = <<>>
    /\ stg_unfinished = {}
    /\ stg_pool = {}
    /\ stg_main = <<>>

\* The last sub-models are at rest.
TailIdle == ChkIdle /\ IrIdle /\ IcIdle /\ StgIdle

\* The sub-models that came after get_calendar's are at rest.
LaterIdle == ObsIdle /\ TradIdle /\ CfgImported /\ TailIdle

\* The sub-models that came after the first three are at rest.
ExtIdle == CalIdle /\ LaterIdle

\* The Timestamps of the model: MaxSlot times of day on each of MaxDay days.
Stamps == {d * 1440 + 900 + 30 * k : d \in 0..(MaxDay - 1), k \in 0..(MaxSlot - 1)}

\* pd.notna(val)
notna(val) == val # NaT /\ val # None

\* Mutant of strftime_HM: the format keeps the date ("%d %H:%M").
strftime_with_date(ts) == <<ts \div 1440, (ts % 1440) \div 60, (ts % 1440) % 60>>

\* Timestamp.strftime("%H:%M"): the hour and the minute, the date dropped.
strftime_HM(ts) == <<(ts % 1440) \div 60, (ts % 1440) % 60>>

\* dict helpers: `key in d`, d.get(key), list(d.values())
dict_has(d, key) == \E i \in 1..Len(d) : d[i][1] = key
dict_get(d, key) ==
    IF dict_has(d, key)
    THEN d[CHOOSE i \in 1..Len(d) : d[i][1] = key][2]
    ELSE None
dict_values(d) == [i \in 1..Len(d) |-> d[i][2]]

\* `v in lst` for a Python list
in_list(v, lst) == \E i \in 1..Len(lst) : lst[i] = v

\* `if v not in candidates: candidates.append(v)`, for each v of vs in order
RECURSIVE append_new(_, _)
append_new(candidates, vs) ==
    IF vs = <<>> THEN candidates
    ELSE append_new(IF in_list(Head(vs), candidates)
                    THEN candidates
                    ELSE Append(candidates, Head(vs)),
                    Tail(vs))

----------------------------------------------------------------------------
(* _compute_confidence *)

compute_confidence(ir_val, inferred, scrapers) ==
    LET vals == dict_values(scrapers)
        times == [i \in 1..Len(vals) |-> strftime_HM(vals[i])]
    IN  IF ir_val # None /\ notna(ir_val) THEN "highest"
        ELSE IF /\ inferred # None
                /\ notna(inferred)
                /\ Len(scrapers) > 0
                /\ \E i \in 1..Len(vals) : times[i] = strftime_HM(inferred)
        THEN "high"
        ELSE IF Len(scrapers) >= 2
        THEN IF Len(times) # Cardinality({times[i] : i \in 1..Len(times)})
             THEN "high"
             ELSE "medium"
        ELSE "low"

----------------------------------------------------------------------------
(* _build_candidates *)

datetime_cols ==
    <<"ir_datetime", "inferred_datetime", "sbi_datetime", "matsui_datetime",
      "tradersweb_datetime">>

available_cols(columns) == SelectSeq(datetime_cols, LAMBDA c : c \in columns)

scraper_cols(columns) ==
    SelectSeq(available_cols(columns),
              LAMBDA c : c \notin {"ir_datetime", "inferred_datetime"})

\* The dict `values` of build_row_candidates: the row's non-null datetime
\* columns, in available_cols order.
row_values(columns, r) ==
    LET present == SelectSeq(available_cols(columns), LAMBDA c : notna(r[c]))
    IN  [i \in 1..Len(present) |-> <<present[i], r[present[i]]>>]

\* The dict `scrapers`: the entries of `values` under a scraper column.
row_scrapers(columns, values) ==
    SelectSeq(values, LAMBDA kv : in_list(kv[1], scraper_cols(columns)))

\* Mutant of empty_row_result: a default timestamp (midnight) instead of NaT.
empty_row_midnight == [candidates |-> <<>>, datetime |-> 0, confidence |-> "low"]

\* `if not values: return [], pd.NaT, "low"`
empty_row_result == [candidates |-> <<>>, datetime |-> NaT, confidence |-> "low"]

\* Mutant of ir_branch: the IR value is listed after the other values.
ir_branch_ir_last(columns, values, ir_val) ==
    LET others == SelectSeq(available_cols(columns),
                            LAMBDA c : c # "ir_datetime" /\ dict_has(values, c))
    IN  append_new([i \in 1..Len(others) |-> dict_get(values, others[i])], <<ir_val>>)

\* IR present: the IR value, then every other value not yet listed.
ir_branch(columns, values, ir_val) ==
    LET others == SelectSeq(available_cols(columns),
                            LAMBDA c : c # "ir_datetime" /\ dict_has(values, c))
    IN  append_new(<<ir_val>>, [i \in 1..Len(others) |-> dict_get(values, others[i])])

\* Whether the loop over scrapers.values() finds the inferred time of day.
inferred_matches(inferred, scrapers) ==
    \E i \in 1..Len(scrapers) : strftime_HM(scrapers[i][2]) = strftime_HM(inferred)

\* Mutant of inferred_branch: the scraper values are appended without the
\* `not in candidates` test.
inferred_branch_no_dedup(inferred, scrapers) ==
    <<inferred>> \o dict_values(scrapers)

\* Inferred matches a scraper: inferred, then every scraper value not yet listed.
inferred_branch(inferred, scrapers) ==
    append_new(<<inferred>>, dict_values(scrapers))

\* time_groups: the scraper values grouped by time of day, the groups in the
\* order their time of day is first met (dict.setdefault).
time_groups(scrapers) ==
    LET vals == dict_values(scrapers)
        firsts == SelectSeq([i \in 1..Len(vals) |-> i],
                            LAMBDA i : \A j \in 1..(i - 1) :
                                strftime_HM(vals[j]) # strftime_HM(vals[i]))
    IN  [g \in 1..Len(firsts) |->
            SelectSeq(vals, LAMBDA v : strftime_HM(v) = strftime_HM(vals[firsts[g]]))]

\* Mutant of largest_group: the first group, whatever its length.
first_group(scrapers) == time_groups(scrapers)[1]

\* max(time_groups.values(), key=len): the first group of the greatest length.
largest_group(scrapers) ==
    LET groups == time_groups(scrapers)
        g == CHOOSE g \in 1..Len(groups) :
                /\ \A h \in 1..Len(groups) : Len(groups[h]) <= Len(groups[g])
                /\ \A h \in 1..(g - 1) : Len(groups[h]) < Len(groups[g])
    IN  groups[g]

\* Mutant of agreement_branch: the largest group alone.
agreement_branch_group_only(values, scrapers) == largest_group(scrapers)

\* Scrapers agree: the largest group as it is, then every value not yet listed.
agreement_branch(values, scrapers) ==
    append_new(largest_group(scrapers), dict_values(values))

\* Mutant of priority: the scrapers before the inferred value.
priority_scrapers_first ==
    <<"sbi_datetime", "matsui_datetime", "tradersweb_datetime", "inferred_datetime">>

priority ==
    <<"inferred_datetime", "sbi_datetime", "matsui_datetime", "tradersweb_datetime">>

\* No agreement: the values present, in priority order.
priority_branch(values) ==
    LET cols == SelectSeq(priority, LAMBDA c : dict_has(values, c))
    IN  [i \in 1..Len(cols) |-> dict_get(values, cols[i])]

\* Mutant of first_or_NaT: candidates[-1].
last_or_NaT(candidates) ==
    IF Len(candidates) > 0 THEN candidates[Len(candidates)] ELSE NaT

\* candidates[0], or pd.NaT for an empty list
first_or_NaT(candidates) == IF Len(candidates) > 0 THEN candidates[1] ELSE NaT

build_row_candidates(columns, r) ==
    LET values == row_values(columns, r)
        ir_val == dict_get(values, "ir_datetime")
        inferred == dict_get(values, "inferred_datetime")
        scrapers == row_scrapers(columns, values)
        confidence == compute_confidence(ir_val, inferred, scrapers)
        candidates ==
            IF ir_val # None /\ notna(ir_val)
            THEN ir_branch(columns, values, ir_val)
            ELSE IF /\ confidence = "high"
                    /\ inferred # None
                    /\ notna(inferred)
                    /\ Len(scrapers) > 0
                    /\ inferred_matches(inferred, scrapers)
            THEN inferred_branch(inferred, scrapers)
            ELSE IF confidence = "high" /\ Len(scrapers) >= 2
            THEN agreement_branch(values, scrapers)
            ELSE priority_branch(values)
    IN  IF Len(values) = 0
        THEN empty_row_result
        ELSE [candidates |-> candidates,
              datetime |-> first_or_NaT(candidates),
              confidence |-> confidence]

----------------------------------------------------------------------------
(* run_parallel: a ThreadPoolExecutor of max_workers threads, one future   *)
(* per task, the results collected by the calling thread as the futures    *)
(* complete.  A task is named by its place in the dict, 1..Len(tasks); its *)
(* callable either returns or raises an Exception.                         *)

TaskNames == 1..Len(tasks)

\* What the callable of task `name` returns: a value of its own.
return_value(name) == 10 * name

\* Mutant of executor_workers: max_workers is not handed to the executor,
\* which takes its default size.
executor_default_workers(workers) == 32

\* ThreadPoolExecutor(max_workers=max_workers): the size of the pool.
executor_workers(workers) == workers

\* Worker threads blocked on work_queue.get().
idle_workers == num_threads - Cardinality(running) - releasing

ParIdle ==
    /\ tasks = <<>>
    /\ max_workers = 1
    /\ pc = "idle"
    /\ submitted = 0
    /\ work_queue = <<>>
    /\ num_threads = 0
    /\ idle_semaphore = 0
    /\ running = {}
    /\ releasing = 0
    /\ future_state = <<>>
    /\ yielded = {}
    /\ results = <<>>
    /\ results_keys = <<>>
    /\ warned = {}
    /\ raised = FALSE
    /\ runs = <<>>

\* Every dict of at most MaxTasks callables, each returning or raising.
ParInit ==
    /\ tasks \in UNION {[1..n -> {"returns", "raises"}] : n \in 0..MaxTasks}
    /\ max_workers \in 1..MaxWorkers
    /\ pc = "call"
    /\ submitted = 0
    /\ work_queue = <<>>
    /\ num_threads = 0
    /\ idle_semaphore = 0
    /\ running = {}
    /\ releasing = 0
    /\ future_state = [n \in TaskNames |-> "NONE"]
    /\ yielded = {}
    /\ results = <<>>
    /\ results_keys = <<>>
    /\ warned = {}
    /\ raised = FALSE
    /\ runs = [n \in TaskNames |-> 0]

\* `if not tasks: return {}`
ReturnEmpty ==
    /\ pc = "call"
    /\ Len(tasks) = 0
    /\ pc' = "done"
    /\ UNCHANGED <<reconVars, confVars, extVars, tasks, max_workers, submitted, work_queue, num_threads,
                   idle_semaphore, running, releasing, future_state, yielded,
                   results, results_keys, warned, raised, runs>>

\* `results = {}` and the entry of the `with ThreadPoolExecutor(...)` block.
EnterExecutor ==
    /\ pc = "call"
    /\ Len(tasks) > 0
    /\ pc' = "submit"
    /\ results' = <<>>
    /\ UNCHANGED <<reconVars, confVars, extVars, tasks, max_workers, submitted, work_queue, num_threads,
                   idle_semaphore, running, releasing, future_state, yielded,
                   warned, raised, runs, results_keys>>

\* executor.submit(fn) for the next task of the dict: the work item is queued,
\* and a thread is started unless a worker counts as idle or the pool is full.
Submit ==
    /\ pc = "submit"
    /\ submitted < Len(tasks)
    /\ LET name == submitted + 1
       IN  /\ submitted' = name
           /\ future_state' = [future_state EXCEPT ![name] = "PENDING"]
           /\ work_queue' = Append(work_queue, name)
           /\ IF idle_semaphore > 0
              THEN idle_semaphore' = idle_semaphore - 1 /\ num_threads' = num_threads
              ELSE /\ idle_semaphore' = idle_semaphore
                   /\ num_threads' = IF num_threads < executor_workers(max_workers)
                                     THEN num_threads + 1
                                     ELSE num_threads
           /\ pc' = IF name = Len(tasks) THEN "collect" ELSE "submit"
    /\ UNCHANGED <<reconVars, confVars, extVars, tasks, max_workers, running, releasing, yielded, results, results_keys,
                   warned, raised, runs>>

\* A worker takes the next work item off the queue and calls fn().
WorkerGet ==
    /\ idle_workers > 0
    /\ Len(work_queue) > 0
    /\ LET name == Head(work_queue)
       IN  /\ work_queue' = Tail(work_queue)
           /\ running' = running \cup {name}
           /\ future_state' = [future_state EXCEPT ![name] = "RUNNING"]
           /\ runs' = [runs EXCEPT ![name] = @ + 1]
    /\ UNCHANGED <<reconVars, confVars, extVars, tasks, max_workers, pc, submitted, num_threads, idle_semaphore,
                   releasing, yielded, results, results_keys, warned, raised>>

\* fn() returns or raises: the future is given the result or the exception.
WorkerFinish(name) ==
    /\ name \in running
    /\ running' = running \ {name}
    /\ future_state' = [future_state EXCEPT ![name] = "FINISHED"]
    /\ releasing' = releasing + 1
    /\ UNCHANGED <<reconVars, confVars, extVars, tasks, max_workers, pc, submitted, work_queue, num_threads,
                   idle_semaphore, yielded, results, results_keys, warned, raised, runs>>

\* The worker counts itself idle and goes back to the queue.
WorkerRelease ==
    /\ releasing > 0
    /\ releasing' = releasing - 1
    /\ idle_semaphore' = idle_semaphore + 1
    /\ UNCHANGED <<reconVars, confVars, extVars, tasks, max_workers, pc, submitted, work_queue, num_threads,
                   running, future_state, yielded, results, results_keys, warned, raised, runs>>

\* Mutant of Collect: no try/except around future.result(), the task's
\* exception leaves the loop.
CollectNoCatch(name) ==
    /\ pc = "collect"
    /\ name \in TaskNames \ yielded
    /\ future_state[name] = "FINISHED"
    /\ yielded' = yielded \cup {name}
    /\ IF tasks[name] = "returns"
       THEN /\ results' = results @@ (name :> return_value(name))
            /\ results_keys' = Append(results_keys, name)
            /\ UNCHANGED <<raised, pc>>
       ELSE /\ raised' = TRUE
            /\ pc' = "join"
            /\ UNCHANGED <<results, results_keys>>
    /\ UNCHANGED <<reconVars, confVars, extVars, tasks, max_workers, submitted, work_queue, num_threads,
                   idle_semaphore, running, releasing, future_state, warned, runs>>

\* One turn of `for future in as_completed(future_to_name)`: a finished future
\* not yet yielded; its result is stored under its name, its Exception logged.
Collect(name) ==
    /\ pc = "collect"
    /\ name \in TaskNames \ yielded
    /\ future_state[name] = "FINISHED"
    /\ yielded' = yielded \cup {name}
    /\ IF tasks[name] = "returns"
       THEN /\ results' = results @@ (name :> return_value(name))
            /\ results_keys' = Append(results_keys, name)
            /\ UNCHANGED warned
       ELSE /\ warned' = warned \cup {name}
            /\ UNCHANGED <<results, results_keys>>
    /\ UNCHANGED <<reconVars, confVars, extVars, tasks, max_workers, pc, submitted, work_queue, num_threads,
                   idle_semaphore, running, releasing, future_state, raised, runs>>

\* Mutant of Shutdown: the loop over as_completed is left after the first
\* future it yielded.
ShutdownEarly ==
    /\ pc = "collect"
    /\ yielded # {}
    /\ pc' = "join"
    /\ UNCHANGED <<reconVars, confVars, extVars, tasks, max_workers, submitted, work_queue, num_threads,
                   idle_semaphore, running, releasing, future_state, yielded,
                   results, results_keys, warned, raised, runs>>

\* as_completed is exhausted: the `with` block ends, executor.shutdown(wait=True).
Shutdown ==
    /\ pc = "collect"
    /\ yielded = TaskNames
    /\ pc' = "join"
    /\ UNCHANGED <<reconVars, confVars, extVars, tasks, max_workers, submitted, work_queue, num_threads,
                   idle_semaphore, running, releasing, future_state, yielded,
                   results, results_keys, warned, raised, runs>>

\* An idle worker of the executor shut down finds no work and ends.
WorkerExit ==
    /\ pc = "join"
    /\ idle_workers > 0
    /\ Len(work_queue) = 0
    /\ num_threads' = num_threads - 1
    /\ UNCHANGED <<reconVars, confVars, extVars, tasks, max_workers, pc, submitted, work_queue, idle_semaphore,
                   running, releasing, future_state, yielded, results, results_keys, warned,
                   raised, runs>>

\* Every worker is joined: `return results` (or the exception goes on).
Return ==
    /\ pc = "join"
    /\ num_threads = 0
    /\ pc' = "done"
    /\ UNCHANGED <<reconVars, confVars, extVars, tasks, max_workers, submitted, work_queue, num_threads,
                   idle_semaphore, running, releasing, future_state, yielded,
                   results, results_keys, warned, raised, runs>>

\* The steps of a run_parallel call on a dict that is not empty.
ParRun ==
    \/ EnterExecutor
    \/ Submit
    \/ WorkerGet
    \/ \E name \in TaskNames : WorkerFinish(name)
    \/ WorkerRelease
    \/ \E name \in TaskNames : Collect(name)
    \/ Shutdown
    \/ WorkerExit
    \/ Return

ParNext ==
    \/ ReturnEmpty
    \/ ParRun

----------------------------------------------------------------------------
(* The reconciliation of one row. *)

DatetimeColSet == {datetime_cols[i] : i \in 1..Len(datetime_cols)}
ScraperColSet == DatetimeColSet \ {"ir_datetime", "inferred_datetime"}

no_result == [candidates |-> <<>>, datetime |-> NaT, confidence |-> ""]

ConfIdle ==
    /\ conf_args = [ir_val |-> None, inferred |-> None, scrapers |-> <<>>]
    /\ conf_ret = ""

ReconIdle ==
    /\ df_columns = {}
    /\ row = <<>>
    /\ built = FALSE
    /\ result = no_result

\* Every table with one row over any subset of the datetime columns.
ReconInit ==
    /\ df_columns \in SUBSET DatetimeColSet
    /\ row \in [df_columns -> Stamps \cup {NaT}]
    /\ built = FALSE
    /\ result = no_result

\* _build_candidates(df): df.apply(build_row_candidates, axis=1) and the three
\* column assignments.
BuildCandidates ==
    /\ ~built
    /\ result' = build_row_candidates(df_columns, row)
    /\ built' = TRUE
    /\ UNCHANGED <<df_columns, row, confVars, parVars, extVars>>

InitRecon == ReconInit /\ ConfIdle /\ ParIdle /\ ExtIdle

SpecRecon == InitRecon /\ [][BuildCandidates]_vars

----------------------------------------------------------------------------
(* A direct call of _compute_confidence. *)

\* The dict over the scraper columns S with the values f, in column order.
scraper_dict(S, f) ==
    LET cols == SelectSeq(datetime_cols, LAMBDA c : c \in S)
    IN  [i \in 1..Len(cols) |-> <<cols[i], f[cols[i]]>>]

ScraperDicts == {scraper_dict(S, f) : S \in SUBSET ScraperColSet, f \in [ScraperColSet -> Stamps]}

\* ir_val and inferred are a Timestamp, pd.NaT or None; scrapers holds Timestamps.
ConfInit ==
    /\ conf_args \in [ir_val : Stamps \cup {NaT, None},
                      inferred : Stamps \cup {NaT, None},
                      scrapers : ScraperDicts]
    /\ conf_ret = ""

ComputeConfidence ==
    /\ conf_ret = ""
    /\ conf_ret' = compute_confidence(conf_args.ir_val, conf_args.inferred,
                                      conf_args.scrapers)
    /\ UNCHANGED <<conf_args, reconVars, parVars, extVars>>

InitConfidence == ConfInit /\ ReconIdle /\ ParIdle /\ ExtIdle

SpecConfidence == InitConfidence /\ [][ComputeConfidence]_vars

InitParallel == ParInit /\ ReconIdle /\ ConfIdle /\ ExtIdle

SpecParallel == InitParallel /\ [][ParNext]_vars

----------------------------------------------------------------------------
(* What the claims speak of, stated on the row itself. *)

\* The column holds an observation.
Present(c) == c \in df_columns /\ row[c] # NaT

\* Two instants at the same hour:minute, whatever their dates.
SameTimeOfDay(a, b) == (a - b) % 1440 = 0

ScraperOrder == <<"sbi_datetime", "matsui_datetime", "tradersweb_datetime">>
PriorityOrder == <<"inferred_datetime">> \o ScraperOrder

PresentScrapers == SelectSeq(ScraperOrder, Present)
PresentInPriority == SelectSeq(PriorityOrder, Present)

IrPresent == Present("ir_datetime")
InferredPresent == Present("inferred_datetime")

InferredMatchesScraper ==
    /\ InferredPresent
    /\ \E c \in ScraperColSet :
          Present(c) /\ SameTimeOfDay(row[c], row["inferred_datetime"])

ScrapersAgree ==
    \E c1, c2 \in ScraperColSet :
        /\ c1 # c2
        /\ Present(c1)
        /\ Present(c2)
        /\ SameTimeOfDay(row[c1], row[c2])

ValuesOf(cols) == [i \in 1..Len(cols) |-> row[cols[i]]]
ElemsOf(seq) == {seq[i] : i \in 1..Len(seq)}
NoRepeats(seq) == \A i, j \in 1..Len(seq) : i # j => seq[i] # seq[j]

----------------------------------------------------------------------------
(* C1: IR supremacy.  In every row with a present ir_datetime the            *)
(* confidence is "highest" and the selected datetime is the IR value,       *)
(* whatever the inferred and scraper values are.                            *)
C1_IRSupremacy ==
    (built /\ IrPresent) =>
        /\ result.confidence = "highest"
        /\ result.datetime = row["ir_datetime"]

\* Two scrapers agree with each other on a time that is not the IR time.
C1_Witness ==
    /\ built
    /\ IrPresent
    /\ InferredPresent
    /\ Present("sbi_datetime")
    /\ Present("matsui_datetime")
    /\ row["sbi_datetime"] = row["matsui_datetime"]
    /\ ~SameTimeOfDay(row["sbi_datetime"], row["ir_datetime"])
    /\ result.datetime = row["ir_datetime"]

(* C2: candidate membership.  A present selected datetime is the first      *)
(* element of a non-empty candidate_datetimes; the selected datetime is     *)
(* NaT exactly when candidate_datetimes is empty.                           *)
C2_CandidateMembership ==
    built =>
        /\ result.datetime # NaT =>
              /\ Len(result.candidates) > 0
              /\ result.candidates[1] = result.datetime
        /\ result.datetime = NaT <=> Len(result.candidates) = 0

C2_Witness ==
    /\ built
    /\ ~IrPresent
    /\ Len(result.candidates) >= 3
    /\ result.datetime # NaT
    /\ result.candidates[1] # result.candidates[Len(result.candidates)]

(* C3: no duplicate candidates.  candidate_datetimes never holds the same   *)
(* instant twice; two scrapers reporting the identical instant put it in    *)
(* the list once.                                                           *)
C3_NoDuplicateCandidates == built => NoRepeats(result.candidates)

(* C4: the confidence function.  _compute_confidence returns "highest" iff  *)
(* ir is present; otherwise "high" iff inferred is present and some scraper *)
(* value has its hour:minute, or two of at least two scraper values share   *)
(* an hour:minute; otherwise "medium" iff at least two scraper values are   *)
(* present; otherwise "low".  Agreement ignores the date; NaT and None are  *)
(* not present.                                                             *)
C4_ConfidenceFunction ==
    LET ir == conf_args.ir_val
        inf == conf_args.inferred
        s == conf_args.scrapers
        present(v) == v \notin {NaT, None}
        inferredAgrees ==
            present(inf) /\ \E i \in 1..Len(s) : SameTimeOfDay(s[i][2], inf)
        twoAgree ==
            \E i, j \in 1..Len(s) : i # j /\ SameTimeOfDay(s[i][2], s[j][2])
    IN  conf_ret # "" =>
            /\ conf_ret = "highest" <=> present(ir)
            /\ ~present(ir) =>
                  /\ conf_ret = "high" <=> (inferredAgrees \/ twoAgree)
                  /\ ~(inferredAgrees \/ twoAgree) =>
                        /\ conf_ret = "medium" <=> Len(s) >= 2
                        /\ Len(s) < 2 => conf_ret = "low"

\* "high" from an inferred value and a scraper value on different dates.
C4_Witness ==
    /\ conf_ret = "high"
    /\ conf_args.ir_val = NaT
    /\ conf_args.inferred \in Stamps
    /\ Len(conf_args.scrapers) = 1
    /\ conf_args.scrapers[1][2] # conf_args.inferred
    /\ SameTimeOfDay(conf_args.scrapers[1][2], conf_args.inferred)

(* C5: the scraper-agreement branch.  With IR absent, inferred matching no  *)
(* scraper's hour:minute and two scrapers sharing one, the largest group of *)
(* scraper values by hour:minute is taken (the first found in the order     *)
(* sbi, matsui, tradersweb on a tie); the selected datetime is that group's *)
(* first value and candidate_datetimes is the group's values followed by    *)
(* every other present observation not already listed.                     *)
C5_ScraperAgreement ==
    LET groupOf(c) ==
            SelectSeq(PresentScrapers, LAMBDA d : SameTimeOfDay(row[d], row[c]))
        lead ==
            CHOOSE i \in 1..Len(PresentScrapers) :
                /\ \A j \in 1..Len(PresentScrapers) :
                      Len(groupOf(PresentScrapers[j])) <= Len(groupOf(PresentScrapers[i]))
                /\ \A j \in 1..(i - 1) :
                      Len(groupOf(PresentScrapers[j])) < Len(groupOf(PresentScrapers[i]))
        group == ValuesOf(groupOf(PresentScrapers[lead]))
        cands == result.candidates
        rest == SubSeq(cands, Len(group) + 1, Len(cands))
    IN  (built /\ ~IrPresent /\ ~InferredMatchesScraper /\ ScrapersAgree) =>
            /\ result.datetime = group[1]
            /\ Len(cands) >= Len(group)
            /\ SubSeq(cands, 1, Len(group)) = group
            /\ NoRepeats(rest)
            /\ ElemsOf(rest) = ElemsOf(ValuesOf(PresentInPriority)) \ ElemsOf(group)

\* The agreeing pair is not led by sbi, and inferred is present beside it.
C5_Witness ==
    /\ built
    /\ ~IrPresent
    /\ InferredPresent
    /\ ~InferredMatchesScraper
    /\ Len(PresentScrapers) = 3
    /\ SameTimeOfDay(row["matsui_datetime"], row["tradersweb_datetime"])
    /\ row["matsui_datetime"] # row["tradersweb_datetime"]
    /\ result.datetime = row["matsui_datetime"]
    /\ Len(result.candidates) = 4

(* C6: the inferred-match branch.  With IR absent and the inferred value's  *)
(* hour:minute equal to that of a present scraper value, the selected       *)
(* datetime is the inferred value, confidence is "high", and                *)
(* candidate_datetimes is [inferred] followed by the scraper values in the  *)
(* order sbi, matsui, tradersweb, each only if its instant is not listed.   *)
C6_InferredMatch ==
    LET inf == row["inferred_datetime"]
        fresh == SelectSeq([i \in 1..Len(PresentScrapers) |-> i],
                           LAMBDA i :
                               /\ row[PresentScrapers[i]] # inf
                               /\ \A j \in 1..(i - 1) :
                                     row[PresentScrapers[j]] # row[PresentScrapers[i]])
    IN  (built /\ ~IrPresent /\ InferredMatchesScraper) =>
            /\ result.datetime = inf
            /\ result.confidence = "high"
            /\ result.candidates =
                  <<inf>> \o [k \in 1..Len(fresh) |-> row[PresentScrapers[fresh[k]]]]

\* One scraper repeats the inferred instant, two others repeat each other.
C6_Witness ==
    /\ built
    /\ ~IrPresent
    /\ InferredMatchesScraper
    /\ Len(PresentScrapers) = 3
    /\ row["sbi_datetime"] # row["inferred_datetime"]
    /\ row["matsui_datetime"] = row["inferred_datetime"]
    /\ row["tradersweb_datetime"] = row["sbi_datetime"]
    /\ result.candidates = <<row["inferred_datetime"], row["sbi_datetime"]>>

(* C7: fallback priority.  With IR absent and confidence "medium" or "low", *)
(* candidate_datetimes lists the present values in the order inferred, sbi, *)
(* matsui, tradersweb and the selected datetime is the first of them.       *)
C7_FallbackPriority ==
    (built /\ ~IrPresent /\ result.confidence \in {"medium", "low"}) =>
        /\ result.candidates = ValuesOf(PresentInPriority)
        /\ Len(PresentInPriority) > 0 =>
              result.datetime = row[PresentInPriority[1]]
        /\ InferredPresent => result.datetime = row["inferred_datetime"]

\* Inferred and two scrapers, all at different times of day: "medium", the
\* inferred value selected, sbi before matsui.
C7_Witness ==
    /\ built
    /\ ~IrPresent
    /\ result.confidence = "medium"
    /\ InferredPresent
    /\ Present("sbi_datetime")
    /\ Present("matsui_datetime")
    /\ result.datetime = row["inferred_datetime"]
    /\ result.candidates[2] = row["sbi_datetime"]
    /\ result.candidates[3] = row["matsui_datetime"]

(* C8: the vacuous case.  A row with no present observation gets confidence *)
(* "low", an empty candidate_datetimes and the selected datetime NaT.       *)
C8_VacuousCase ==
    (built /\ \A c \in DatetimeColSet : ~Present(c)) =>
        /\ result.confidence = "low"
        /\ result.candidates = <<>>
        /\ result.datetime = NaT

\* Columns that exist and hold only NaT.
C8_Witness ==
    /\ built
    /\ {"sbi_datetime", "matsui_datetime"} \subseteq df_columns
    /\ \A c \in DatetimeColSet : ~Present(c)
    /\ result.confidence = "low"

(* C9: runner fault isolation.  Whatever the scheduling, run_parallel       *)
(* returns without raising a mapping with one entry per task that did not   *)
(* raise (N - K entries), each task's name mapped to its own return value,  *)
(* no entry for a raising task; every task was run, the siblings of a       *)
(* raising task included.                                                   *)
C9_FaultIsolation ==
    LET succeeded == {n \in TaskNames : tasks[n] = "returns"}
        failed == {n \in TaskNames : tasks[n] = "raises"}
    IN  pc = "done" =>
            /\ ~raised
            /\ DOMAIN results = succeeded
            /\ Cardinality(DOMAIN results) = Len(tasks) - Cardinality(failed)
            /\ \A n \in succeeded : results[n] = return_value(n)
            /\ \A n \in TaskNames : runs[n] = 1

\* One worker, the first and the last of three tasks raise.
C9_Witness ==
    /\ pc = "done"
    /\ max_workers = 1
    /\ Len(tasks) = 3
    /\ tasks[1] = "raises"
    /\ tasks[3] = "raises"
    /\ DOMAIN results = {2}
    /\ warned = {1, 3}

(* C10: bounded parallelism.  At every moment at most max_workers tasks are *)
(* executing; no task is executed twice and on return each was executed     *)
(* once; with at most max_workers tasks no queued task waits for a running  *)
(* one to finish (an idle worker stands ready for each), so all of them can *)
(* be executing together.                                                   *)
C10_BoundedParallelism ==
    /\ Cardinality(running) <= max_workers
    /\ \A n \in TaskNames : runs[n] <= 1
    /\ pc = "done" => \A n \in TaskNames : runs[n] = 1
    /\ Len(tasks) <= max_workers => Len(work_queue) <= idle_workers

\* Three tasks on three workers, all three executing at once.
C10_Witness ==
    /\ Len(tasks) = 3
    /\ max_workers = 3
    /\ running = {1, 2, 3}

----------------------------------------------------------------------------
(* _merge_sources: the tables of the sources joined on the stock code.      *)
(* A name cell holds the name as the source spells it, a datetime cell is   *)
(* an opaque Timestamp (or NaT); a cell the join had nothing for is NaN.    *)

\* Stock codes the tables are drawn from.
MaxCodes == 2
Codes == 1..MaxCodes

\* A missing cell (NaN, None or NaT once pd.to_datetime has coerced it).
NaN == "NaN"
\* A datetime cell that came from a source.
ts == "ts"

\* list(SCRAPERS): the names of ALL_SOURCES in registration order.
SourceNames == <<"sbi", "matsui", "tradersweb">>
SourceNameSet == {SourceNames[i] : i \in 1..Len(SourceNames)}

\* f"{source}_datetime"
source_datetime(source) ==
    CASE source = "sbi" -> "sbi_datetime"
      [] source = "matsui" -> "matsui_datetime"
      [] source = "tradersweb" -> "tradersweb_datetime"

\* `c in df.columns`
has_column(df, c) == in_list(c, df.columns)

\* The columns a row has cells for.
cell_columns(columns) == {columns[i] : i \in 1..Len(columns)} \ {"code"}

\* df.rename(columns={"datetime": f"{source}_datetime"})
rename_datetime(df, source) ==
    LET new_name(c) == IF c = "datetime" THEN source_datetime(source) ELSE c
        old_name(c) == IF c = source_datetime(source) THEN "datetime" ELSE c
        columns == [i \in 1..Len(df.columns) |-> new_name(df.columns[i])]
    IN  [columns |-> columns,
         rows |-> [code \in DOMAIN df.rows |->
                     [c \in cell_columns(columns) |-> df.rows[code][old_name(c)]]]]

\* df[[c for c in cols if c in df.columns]]
select_columns(df, cols) ==
    LET columns == SelectSeq(cols, LAMBDA c : has_column(df, c))
    IN  [columns |-> columns,
         rows |-> [code \in DOMAIN df.rows |->
                     [c \in cell_columns(columns) |-> df.rows[code][c]]]]

\* The suffix "_dup" given to a right-hand column that the left table has too.
\* Only "name" can overlap: the datetime columns carry their source's name.
with_dup_suffix(c) == IF c = "name" THEN "name_dup" ELSE c

\* Mutant of outer_codes: how="inner", the codes of both tables.
inner_codes(left, right) == DOMAIN left.rows \cap DOMAIN right.rows

\* The codes of pd.merge(..., how="outer"): those of either table.
outer_codes(left, right) == DOMAIN left.rows \cup DOMAIN right.rows

\* pd.merge(left, right, on="code", how=..., suffixes=("", "_dup")) with the
\* codes of the result given: the left columns, then the right ones, a cell
\* being NaN where its table has no row for the code.
pd_merge(left, right, codes) ==
    LET overlap == cell_columns(left.columns) \cap cell_columns(right.columns)
        right_name(c) == IF c \in overlap THEN with_dup_suffix(c) ELSE c
        right_cols == SelectSeq(right.columns, LAMBDA c : c # "code")
        right_new == [i \in 1..Len(right_cols) |-> right_name(right_cols[i])]
        right_old(c) == right_cols[CHOOSE i \in 1..Len(right_cols) : right_new[i] = c]
        columns == left.columns \o right_new
    IN  [columns |-> columns,
         rows |-> [code \in codes |->
                     [c \in cell_columns(columns) |->
                        IF c \in cell_columns(left.columns)
                        THEN IF code \in DOMAIN left.rows
                             THEN left.rows[code][c]
                             ELSE NaN
                        ELSE IF code \in DOMAIN right.rows
                             THEN right.rows[code][right_old(c)]
                             ELSE NaN]]]

\* merged["name"] = merged["name"].fillna(merged["name_dup"]);
\* merged = merged.drop(columns=["name_dup"])
fillna_and_drop(df) ==
    LET columns == SelectSeq(df.columns, LAMBDA c : c # "name_dup")
    IN  [columns |-> columns,
         rows |-> [code \in DOMAIN df.rows |->
                     [c \in cell_columns(columns) |->
                        IF c = "name" /\ df.rows[code]["name"] = NaN
                        THEN df.rows[code]["name_dup"]
                        ELSE df.rows[code][c]]]]

\* One turn of `for source in sources[1:]`.
merge_one(m, source, df) ==
    LET merge_cols ==
            <<"code", source_datetime(source)>>
            \o (IF has_column(df, "name") /\ ~has_column(m, "name")
                THEN <<"name">>
                ELSE <<>>)
        joined == pd_merge(m, select_columns(df, merge_cols),
                           outer_codes(m, select_columns(df, merge_cols)))
    IN  IF has_column(joined, "name_dup") THEN fillna_and_drop(joined) ELSE joined

RECURSIVE merge_rest(_, _)
merge_rest(m, renamed) ==
    IF renamed = <<>> THEN m
    ELSE merge_rest(merge_one(m, Head(renamed)[1], Head(renamed)[2]), Tail(renamed))

\* _merge_sources(source_data), source_data a dict in insertion order.  The
\* closing dtype coercions leave a cell from a source as it is and NaN missing.
merge_sources(data) ==
    LET renamed == [i \in 1..Len(data) |->
                      <<data[i][1], rename_datetime(data[i][2], data[i][1])>>]
    IN  merge_rest(renamed[1][2], Tail(renamed))

\* The name a source gives: each source spells it its own way, or leaves it out.
spelling(source) ==
    CASE source = "sbi" -> "Toyota"
      [] source = "matsui" -> "TOYOTA MOTOR"
      [] source = "tradersweb" -> "Toyota Jidosha"

\* The tables a source can hand over, the spelling of the names left open:
\* [code, name, datetime] with any of the codes, or [code, datetime] (the
\* least EarningsSource._fetch must return).
TableShapes ==
    {[columns |-> <<"code", "name", "datetime">>, rows |-> r] :
        r \in UNION {[C -> [name : {NaN, "spelled"}, datetime : {ts}]] :
                        C \in SUBSET Codes}}
    \cup
    {[columns |-> <<"code", "datetime">>, rows |-> r] :
        r \in UNION {[C -> [datetime : {ts}]] : C \in SUBSET Codes}}

\* The table of the shape as the source hands it over.
source_table(source, shape) ==
    [columns |-> shape.columns,
     rows |-> [code \in DOMAIN shape.rows |->
                 [c \in DOMAIN shape.rows[code] |->
                    IF shape.rows[code][c] = "spelled"
                    THEN spelling(source)
                    ELSE shape.rows[code][c]]]]

\* The orders of one to three distinct sources.
SourceOrders ==
    {o \in UNION {[1..n -> SourceNameSet] : n \in 1..Len(SourceNames)} :
        \A i, j \in 1..Len(o) : i # j => o[i] # o[j]}

\* A direct call _merge_sources(source_data) on any dict of source tables.
MergeInit ==
    /\ cal_sources = <<>>
    /\ cal_include_ir = FALSE
    /\ cal_empty = {}
    /\ cal_pc = "merge_call"
    /\ \E o \in SourceOrders :
          \E shapes \in [1..Len(o) -> TableShapes] :
              source_data = [i \in 1..Len(o) |-> <<o[i], source_table(o[i], shapes[i])>>]
    /\ merged = no_table
    /\ cal_steps = {}
    /\ cal_out = no_table

MergeSources ==
    /\ cal_pc = "merge_call"
    /\ merged' = merge_sources(source_data)
    /\ cal_pc' = "merge_done"
    /\ UNCHANGED <<reconVars, confVars, parVars, cal_sources, cal_include_ir,
                   cal_empty, source_data, cal_steps, cal_out, laterVars>>

InitMerge == MergeInit /\ ReconIdle /\ ConfIdle /\ ParIdle /\ LaterIdle

SpecMerge == InitMerge /\ [][MergeSources]_vars

----------------------------------------------------------------------------
(* get_calendar: the selected sources fetched by run_parallel, the tables   *)
(* that came back merged, enriched and put in output order.                 *)

OUTPUT_COLUMNS ==
    <<"code", "name", "datetime", "confidence", "during_trading_hours",
      "candidate_datetimes", "ir_datetime", "sbi_datetime", "matsui_datetime",
      "tradersweb_datetime", "inferred_datetime", "past_datetimes">>

\* A cell computed by an enrichment step.
val == "val"

\* The lists `sources` is drawn from: known names and one SCRAPERS lacks,
\* none repeated, at most MaxTasks of them.
SourceLists ==
    {l \in UNION {[1..n -> SourceNameSet \cup {"unknown"}] : n \in 0..MaxTasks} :
        \A i, j \in 1..Len(l) : i # j => l[i] # l[j]}

\* The keys of `tasks`: the names of the list SCRAPERS has, in list order.
task_sources(sources) == SelectSeq(sources, LAMBDA n : n \in SourceNameSet)

\* What a source's fetch returns when it has rows: sbi and matsui both list
\* code 1, matsui and tradersweb both list code 2, each under its own name.
fetched_rows(source) ==
    LET named == [name |-> spelling(source), datetime |-> ts]
    IN  CASE source = "sbi" -> (1 :> named)
          [] source = "matsui" -> (1 :> named) @@ (2 :> named)
          [] source = "tradersweb" -> (2 :> named)

\* The DataFrame task `name` returned: pd.DataFrame(columns=[...]) when the
\* source had nothing for the date.
fetched_table(sources, empty, name) ==
    [columns |-> <<"code", "name", "datetime">>,
     rows |-> IF name \in empty
              THEN <<>>
              ELSE fetched_rows(task_sources(sources)[name])]

\* `df.empty`
df_empty(df) == DOMAIN df.rows = {}

\* Mutant of nonempty_results: the `if not df.empty` test is left out.
all_results(sources, empty, keys) ==
    [i \in 1..Len(keys) |->
        <<task_sources(sources)[keys[i]], fetched_table(sources, empty, keys[i])>>]

\* `for name, df in raw_results.items(): if not df.empty: source_data[name] = df`
\* with raw_results' keys in insertion order.
nonempty_results(sources, empty, keys) ==
    LET kept == SelectSeq(keys, LAMBDA k : ~df_empty(fetched_table(sources, empty, k)))
    IN  [i \in 1..Len(kept) |->
            <<task_sources(sources)[kept[i]], fetched_table(sources, empty, kept[i])>>]

\* _empty_result(): no rows, every column of OUTPUT_COLUMNS.
empty_result == [columns |-> OUTPUT_COLUMNS, rows |-> <<>>]

\* df[c] = ... for each c of cols: a column the table lacks is appended.
assign_columns(df, cols) ==
    LET columns == df.columns \o SelectSeq(cols, LAMBDA c : ~has_column(df, c))
    IN  [columns |-> columns,
         rows |-> [code \in DOMAIN df.rows |->
                     [c \in cell_columns(columns) |->
                        IF in_list(c, cols) THEN val ELSE df.rows[code][c]]]]

\* merged[[c for c in OUTPUT_COLUMNS if c in merged.columns]]
reorder_columns(df) ==
    LET columns == SelectSeq(OUTPUT_COLUMNS, LAMBDA c : has_column(df, c))
    IN  [columns |-> columns,
         rows |-> [code \in DOMAIN df.rows |->
                     [c \in cell_columns(columns) |-> df.rows[code][c]]]]

\* A call get_calendar(date, sources, include_ir=...).
CalInit ==
    /\ cal_sources \in SourceLists
    /\ cal_include_ir \in BOOLEAN
    /\ cal_empty = {}
    /\ cal_pc = "start"
    /\ source_data = <<>>
    /\ merged = no_table
    /\ cal_steps = {}
    /\ cal_out = no_table

\* The `tasks` dict is built and run_parallel(tasks, max_workers) is called.
\* What each fetch will do (raise, return no rows, return rows) and the
\* max_workers of the settings are the environment's choice.
BuildTasks ==
    /\ cal_pc = "start"
    /\ cal_pc' = "fetch"
    /\ tasks' \in [1..Len(task_sources(cal_sources)) -> {"returns", "raises"}]
    /\ cal_empty' \in SUBSET {n \in DOMAIN tasks' : tasks'[n] = "returns"}
    /\ max_workers' \in 1..MaxWorkers
    /\ pc' = "call"
    /\ future_state' = [n \in DOMAIN tasks' |-> "NONE"]
    /\ runs' = [n \in DOMAIN tasks' |-> 0]
    /\ UNCHANGED <<reconVars, confVars, submitted, work_queue, num_threads,
                   idle_semaphore, running, releasing, yielded, results,
                   results_keys, warned, raised, cal_sources, cal_include_ir,
                   source_data, merged, cal_steps, cal_out, laterVars>>

\* run_parallel has returned: source_data is filled from raw_results.items().
CollectSourceData ==
    /\ cal_pc = "fetch"
    /\ pc = "done"
    /\ ~raised
    /\ source_data' = nonempty_results(cal_sources, cal_empty, results_keys)
    /\ cal_pc' = "collected"
    /\ UNCHANGED <<reconVars, confVars, parVars, cal_sources, cal_include_ir,
                   cal_empty, merged, cal_steps, cal_out, laterVars>>

\* `if not source_data: return _empty_result()`
ReturnEmptyResult ==
    /\ cal_pc = "collected"
    /\ Len(source_data) = 0
    /\ cal_out' = empty_result
    /\ cal_pc' = "returned"
    /\ UNCHANGED <<reconVars, confVars, parVars, cal_sources, cal_include_ir,
                   cal_empty, source_data, merged, cal_steps, laterVars>>

\* merged = _merge_sources(source_data)
MergeFetched ==
    /\ cal_pc = "collected"
    /\ Len(source_data) > 0
    /\ merged' = merge_sources(source_data)
    /\ cal_pc' = "merged"
    /\ UNCHANGED <<reconVars, confVars, parVars, cal_sources, cal_include_ir,
                   cal_empty, source_data, cal_steps, cal_out, laterVars>>

\* merged = _add_history(merged, date, infer=...)
AddHistory ==
    /\ cal_pc = "merged"
    /\ merged' = assign_columns(merged, <<"inferred_datetime", "past_datetimes">>)
    /\ cal_steps' = cal_steps \cup {"history"}
    /\ cal_pc' = "history"
    /\ UNCHANGED <<reconVars, confVars, parVars, cal_sources, cal_include_ir,
                   cal_empty, source_data, cal_out, laterVars>>

\* `if include_ir: merged = _add_ir(merged, ...)`
AddIr ==
    /\ cal_pc = "history"
    /\ cal_include_ir
    /\ merged' = assign_columns(merged, <<"ir_datetime">>)
    /\ cal_steps' = cal_steps \cup {"ir"}
    /\ cal_pc' = "ir"
    /\ UNCHANGED <<reconVars, confVars, parVars, cal_sources, cal_include_ir,
                   cal_empty, source_data, cal_out, laterVars>>

\* merged = _build_candidates(merged); the during_trading_hours column; the
\* columns reordered and the table returned.
FinishCalendar ==
    /\ cal_pc = "ir" \/ (cal_pc = "history" /\ ~cal_include_ir)
    /\ LET candidates == assign_columns(merged, <<"candidate_datetimes", "datetime",
                                                  "confidence">>)
           flagged == assign_columns(candidates, <<"during_trading_hours">>)
       IN  /\ merged' = flagged
           /\ cal_out' = reorder_columns(flagged)
    /\ cal_steps' = cal_steps \cup {"candidates", "trading_hours"}
    /\ cal_pc' = "returned"
    /\ UNCHANGED <<reconVars, confVars, parVars, cal_sources, cal_include_ir,
                   cal_empty, source_data, laterVars>>

CalNext ==
    \/ BuildTasks
    \/ ParNext
    \/ CollectSourceData
    \/ ReturnEmptyResult
    \/ MergeFetched
    \/ AddHistory
    \/ AddIr
    \/ FinishCalendar

InitCalendar == CalInit /\ ReconIdle /\ ConfIdle /\ ParIdle /\ LaterIdle

SpecCalendar == InitCalendar /\ [][CalNext]_vars

----------------------------------------------------------------------------
(* What the merge claims speak of. *)

\* The i-th table handed to _merge_sources.
InputTable(i) == source_data[i][2]

\* The i-th source names the code.
NamesCode(i, code) ==
    /\ code \in DOMAIN InputTable(i).rows
    /\ has_column(InputTable(i), "name")
    /\ InputTable(i).rows[code]["name"] # NaN

\* The first non-absent name among the sources that contain the code, in
\* merge order; NaN when no source names it.
FirstName(code) ==
    IF \E i \in 1..Len(source_data) : NamesCode(i, code)
    THEN LET first == CHOOSE i \in 1..Len(source_data) :
                        /\ NamesCode(i, code)
                        /\ \A j \in 1..(i - 1) : ~NamesCode(j, code)
         IN  InputTable(first).rows[code]["name"]
    ELSE NaN

\* The name of the code's row in the merged table.
MergedName(code) ==
    IF has_column(merged, "name") THEN merged.rows[code]["name"] ELSE NaN

InputCodes == UNION {DOMAIN InputTable(i).rows : i \in 1..Len(source_data)}

\* The dict with the same items in the opposite insertion order.
Reversed(data) == [i \in 1..Len(data) |-> data[Len(data) + 1 - i]]

(* C12: name consolidation.  For every code of the merged table the row's   *)
(* name is the first non-absent name among the sources that contain the     *)
(* code, in merge order; a code found only in a later source carries that   *)
(* source's name.                                                           *)
C12_NameConsolidation ==
    merged # no_table =>
        \A code \in DOMAIN merged.rows : MergedName(code) = FirstName(code)

(* C13: merge row membership.  The codes of the merged table are the union  *)
(* of the codes of the tables merged, and they are the same codes whatever  *)
(* the order the sources are merged in: the dicts of SpecMerge hold every   *)
(* set of tables in every order, and each gives the union, as does the      *)
(* opposite order merged on the spot.                                       *)
C13_MergeRowMembership ==
    merged # no_table =>
        /\ DOMAIN merged.rows = InputCodes
        /\ DOMAIN merge_sources(Reversed(source_data)).rows = DOMAIN merged.rows

\* Three sources, each code known to one source only, one of them the last.
C13_Witness ==
    /\ cal_pc = "merge_done"
    /\ Len(source_data) = 3
    /\ DOMAIN InputTable(1).rows = {1}
    /\ DOMAIN InputTable(2).rows = {}
    /\ DOMAIN InputTable(3).rows = {2}
    /\ DOMAIN merged.rows = {1, 2}

----------------------------------------------------------------------------
(* What the get_calendar claims speak of. *)

\* The fetch tasks that returned, in the order of the caller's source list.
ReturnedInListOrder ==
    SelectSeq([i \in 1..Len(tasks) |-> i], LAMBDA k : k \in DOMAIN results)

\* The tables that came back with rows, in the order of the caller's list.
ListOrderData == nonempty_results(cal_sources, cal_empty, ReturnedInListOrder)

\* The fetch tasks that came back with rows.
TasksWithRows == {k \in DOMAIN tasks : tasks[k] = "returns" /\ k \notin cal_empty}

\* Every selected source failed, returned no rows, or is unknown.
TotalFailure == TasksWithRows = {}

(* C11: merge order is independent of arrival order.  get_calendar merges   *)
(* the source tables in the order of the caller's source list, not in the   *)
(* order the fetch tasks completed: the first source of the merge and the   *)
(* name of every merged row are those of the merge in list order, whatever  *)
(* the completion order was.                                                *)
C11_MergeOrderIndependent ==
    cal_pc = "merged" =>
        /\ source_data[1][1] = ListOrderData[1][1]
        /\ \A code \in DOMAIN merged.rows :
              merged.rows[code]["name"] = merge_sources(ListOrderData).rows[code]["name"]

(* C16: total failure.  When every selected source fails, returns an empty  *)
(* table or is unknown, get_calendar returns, without raising, a table with *)
(* no rows and the columns of the output schema, and runs no history, IR or *)
(* reconciliation step; and whatever fails, the codes of every source that  *)
(* came back with rows are in the table returned.                           *)
C16_TotalFailure ==
    /\ ~raised
    /\ cal_pc = "returned" =>
          /\ \A k \in TasksWithRows :
                DOMAIN fetched_table(cal_sources, cal_empty, k).rows
                    \subseteq DOMAIN cal_out.rows
          /\ TotalFailure =>
                /\ cal_out = [columns |-> OUTPUT_COLUMNS, rows |-> <<>>]
                /\ cal_steps = {}

\* sbi raises, an unknown name is skipped, matsui has no rows: the call
\* returns the empty table.
C16_Witness ==
    /\ cal_pc = "returned"
    /\ cal_sources = <<"sbi", "unknown", "matsui">>
    /\ tasks = <<"raises", "returns">>
    /\ cal_empty = {2}
    /\ warned = {1}
    /\ DOMAIN cal_out.rows = {}

(* C17: output columns reflect the sources that ran.  In every table that   *)
(* get_calendar returns, <tag>_datetime is a column only for the scraper    *)
(* tags selected for the run and ir_datetime only when include_ir is true;  *)
(* the columns present are in OUTPUT_COLUMNS order.                         *)
C17_OutputColumns ==
    cal_pc = "returned" =>
        /\ \A tag \in SourceNameSet :
              has_column(cal_out, source_datetime(tag)) => in_list(tag, cal_sources)
        /\ has_column(cal_out, "ir_datetime") => cal_include_ir
        /\ cal_out.columns = SelectSeq(OUTPUT_COLUMNS, LAMBDA c : has_column(cal_out, c))

----------------------------------------------------------------------------
(* One company's observations on their way to the reconciliation: the       *)
(* scraper's date and time cells through combine_datetime, the IR page      *)
(* through _parse_context_rule_based and _get_ir_datetime, and the row      *)
(* through _build_candidates.                                               *)

\* The times of day a page or a table can state: midnight, 15:00, 15:30, ...
TimesOfDay == {0} \cup {900 + 30 * k : k \in 0..(MaxSlot - 1)}
Days == 0..(MaxDay - 1)

\* datetime(year, month, day) and datetime.combine(date, time)
midnight_of(date) == date * 1440
datetime_combine(date, time) == date * 1440 + time

\* combine_datetime(date_series, time_series) for one row: the missing time
\* filled with "00:00", the strings parsed, NaT put back where the time was
\* missing.
combine_datetime(date, time) ==
    LET time_filled == IF time = None THEN 0 ELSE time
        combined == datetime_combine(date, time_filled)
    IN  IF time # None THEN combined ELSE NaT

\* No EarningsInfo (the parser returned None).
no_info == [found |-> FALSE, datetime |-> None, has_time |-> FALSE]

\* _parse_context_rule_based(context): context.date and context.time are what
\* _parse_japanese_date and _parse_japanese_time find in the text.
parse_context_rule_based(context) ==
    IF context.undetermined /\ context.date # None
    THEN [found |-> TRUE, datetime |-> midnight_of(context.date), has_time |-> FALSE]
    ELSE IF context.date = None
    THEN no_info
    ELSE IF context.time # None
    THEN [found |-> TRUE, datetime |-> datetime_combine(context.date, context.time),
          has_time |-> TRUE]
    ELSE [found |-> TRUE, datetime |-> midnight_of(context.date), has_time |-> FALSE]

\* _get_ir_datetime(code) with nothing cached and no LLM client: the page
\* discovered (or not), its one context parsed by rule.  A datetime object is
\* truthy, so `not earnings_info.datetime` asks whether it is None.
get_ir_datetime(context) ==
    IF ~context.page THEN NaT
    ELSE LET earnings_info == parse_context_rule_based(context)
         IN  IF ~earnings_info.found \/ earnings_info.datetime = None
             THEN NaT
             ELSE earnings_info.datetime

\* A company with a scraper row (its time cell given or missing) and an IR
\* page, if one is found, stating a date, a date and a time, or neither.
ObsInit ==
    /\ obs_pc = "start"
    /\ obs_scraper \in [date : Days, time : TimesOfDay \cup {None}]
    /\ obs_context \in [page : BOOLEAN, date : Days \cup {None},
                        time : TimesOfDay \cup {None}, undetermined : BOOLEAN]
    /\ ~obs_context.page =>
          obs_context = [page |-> FALSE, date |-> None, time |-> None,
                         undetermined |-> FALSE]

\* The row as _add_history (no inference) and _add_ir leave it.
ObserveRow ==
    /\ obs_pc = "start"
    /\ df_columns' = {"ir_datetime", "inferred_datetime", "matsui_datetime"}
    /\ row' = [c \in {"ir_datetime", "inferred_datetime", "matsui_datetime"} |->
                 CASE c = "ir_datetime" -> get_ir_datetime(obs_context)
                   [] c = "inferred_datetime" -> NaT
                   [] c = "matsui_datetime" ->
                        combine_datetime(obs_scraper.date, obs_scraper.time)]
    /\ obs_pc' = "observed"
    /\ UNCHANGED <<built, result, confVars, parVars, calVars, obs_scraper,
                   obs_context, tradVars, cfgVars, tailVars>>

\* _build_candidates on the observed row.
ReconcileObserved ==
    /\ obs_pc = "observed"
    /\ BuildCandidates

ObsNext == ObserveRow \/ ReconcileObserved

InitObserve ==
    ObsInit /\ ReconIdle /\ ConfIdle /\ ParIdle /\ CalIdle /\ TradIdle /\ CfgImported
    /\ TailIdle

SpecObserve == InitObserve /\ [][ObsNext]_vars

\* The IR page states a date and no time of day.
DateOnlyIr ==
    /\ obs_context.page
    /\ obs_context.date # None
    /\ obs_context.time = None \/ obs_context.undetermined

(* C14: absent is never represented as midnight.  An observation whose time *)
(* of day is unknown reaches the reconciliation as absent: a scraper row    *)
(* without a time has a NaT datetime, and an IR page on which only a date   *)
(* was found gives no present ir_datetime and is never the selected         *)
(* datetime at 00:00.                                                       *)
C14_AbsentNotMidnight ==
    obs_pc = "observed" =>
        /\ obs_scraper.time = None => row["matsui_datetime"] = NaT
        /\ DateOnlyIr =>
              /\ row["ir_datetime"] = NaT
              /\ built /\ obs_scraper.time = None => result.datetime = NaT

----------------------------------------------------------------------------
(* is_during_trading_hours *)

\* The TSE session boundaries, in minutes from midnight.
MORNING_OPEN == 540
MORNING_CLOSE == 690
AFTERNOON_OPEN == 750
AFTERNOON_CLOSE == 930

\* Timestamp.hour and Timestamp.minute
hour_of(dt) == (dt % 1440) \div 60
minute_of(dt) == (dt % 1440) % 60

\* Mutant of is_during_trading_hours: the closes are inclusive.
is_during_trading_hours_closed(dt) ==
    IF dt = NaT THEN FALSE
    ELSE LET minutes == hour_of(dt) * 60 + minute_of(dt)
         IN  IF MORNING_OPEN <= minutes /\ minutes <= MORNING_CLOSE THEN TRUE
             ELSE IF AFTERNOON_OPEN <= minutes /\ minutes <= AFTERNOON_CLOSE THEN TRUE
             ELSE FALSE

is_during_trading_hours(dt) ==
    IF dt = NaT THEN FALSE
    ELSE LET minutes == hour_of(dt) * 60 + minute_of(dt)
         IN  IF MORNING_OPEN <= minutes /\ minutes < MORNING_CLOSE THEN TRUE
             ELSE IF AFTERNOON_OPEN <= minutes /\ minutes < AFTERNOON_CLOSE THEN TRUE
             ELSE FALSE

\* Every minute of every day of the model, and NaT.
TradInit ==
    /\ dth_arg \in {NaT} \cup {d * 1440 + m : d \in Days, m \in 0..1439}
    /\ dth_called = FALSE
    /\ dth_ret = FALSE

IsDuringTradingHours ==
    /\ ~dth_called
    /\ dth_ret' = is_during_trading_hours(dth_arg)
    /\ dth_called' = TRUE
    /\ UNCHANGED <<dth_arg, reconVars, confVars, parVars, calVars, obsVars, cfgVars,
                   tailVars>>

InitTrading ==
    TradInit /\ ReconIdle /\ ConfIdle /\ ParIdle /\ CalIdle /\ ObsIdle /\ CfgImported
    /\ TailIdle

SpecTrading == InitTrading /\ [][IsDuringTradingHours]_vars

\* The argument's minutes since midnight.
MinutesSinceMidnight == dth_arg % 1440

(* C15: trading-session classifier.  is_during_trading_hours is false for   *)
(* an absent input and otherwise true exactly when the minutes since        *)
(* midnight m satisfy 540 <= m < 690 or 750 <= m < 930: true at 09:00,      *)
(* 11:29, 12:30 and 15:29, false at 08:59, 11:30, 12:29 and 15:30.          *)
C15_TradingSession ==
    dth_called =>
        /\ dth_arg = NaT => ~dth_ret
        /\ dth_arg # NaT =>
              /\ dth_ret <=> \/ (540 <= MinutesSinceMidnight /\ MinutesSinceMidnight < 690)
                             \/ (750 <= MinutesSinceMidnight /\ MinutesSinceMidnight < 930)
              /\ MinutesSinceMidnight \in {9 * 60, 11 * 60 + 29, 12 * 60 + 30, 15 * 60 + 29}
                    => dth_ret
              /\ MinutesSinceMidnight \in {8 * 60 + 59, 11 * 60 + 30, 12 * 60 + 29, 15 * 60 + 30}
                    => ~dth_ret

\* 11:29 on the second day is in the morning session.
C15_Witness ==
    /\ dth_called
    /\ dth_arg = 1440 + 11 * 60 + 29
    /\ dth_ret

----------------------------------------------------------------------------
(* config: the Settings singleton behind _settings_lock, configure and its  *)
(* hooks; cache.get_cache and llm.get_default_client, the two singletons    *)
(* the hooks reset.  Threads call into them, one statement at a time.  A    *)
(* threading.Lock is not reentrant: acquiring waits until it is free, also  *)
(* for the thread that holds it.                                            *)

\* Calls the threads make in one run.
MaxCalls == 3

\* Settings(): the fields of the model with their defaults, as object `id`.
default_settings(id) == [id |-> id, cache_ttl_days |-> 30, llm_timeout |-> 60]

SettingsFields == {"cache_ttl_days", "llm_timeout"}

\* The keyword arguments configure is called with: none, fields of Settings,
\* or a key Settings does not have.
KwargsChoices ==
    {<<>>,
     <<<<"cache_ttl_days", 7>>>>,
     <<<<"cache_ttl_days", 14>>>>,
     <<<<"llm_timeout", 10>>>>,
     <<<<"nonexistent_key", 42>>>>}

\* dataclasses.replace raises TypeError for a key that is no field.
unknown_key(kwargs) == \E i \in 1..Len(kwargs) : kwargs[i][1] \notin SettingsFields

\* Mutant of replace: the changes are applied to fresh defaults.
replace_defaults(obj, kwargs, id) ==
    [id |-> id,
     cache_ttl_days |-> IF dict_has(kwargs, "cache_ttl_days")
                        THEN dict_get(kwargs, "cache_ttl_days")
                        ELSE default_settings(id).cache_ttl_days,
     llm_timeout |-> IF dict_has(kwargs, "llm_timeout")
                     THEN dict_get(kwargs, "llm_timeout")
                     ELSE default_settings(id).llm_timeout]

\* dataclasses.replace(obj, **kwargs): a new object, the named fields changed.
replace(obj, kwargs, id) ==
    [id |-> id,
     cache_ttl_days |-> IF dict_has(kwargs, "cache_ttl_days")
                        THEN dict_get(kwargs, "cache_ttl_days")
                        ELSE obj.cache_ttl_days,
     llm_timeout |-> IF dict_has(kwargs, "llm_timeout")
                     THEN dict_get(kwargs, "llm_timeout")
                     ELSE obj.llm_timeout]

\* IRCache() and GeminiClient() (an API key being set): what they read from
\* the Settings they were given by get_settings().
new_cache(s) == [ttl_days |-> s.cache_ttl_days, settings_id |-> s.id]
new_client(s) == [timeout |-> s.llm_timeout, settings_id |-> s.id]

\* Where a thread goes on when the get_settings() it called returns.
after_get_settings(caller) ==
    CASE caller = "configure" -> "cfg_replace"
      [] caller = "IRCache" -> "gc_install"
      [] caller = "GeminiClient" -> "dc_install"
      [] caller = "" -> "gs_return"

\* A thread calls configure(**kwargs).
CallConfigure(t, kwargs) ==
    /\ thread_pc[t] = "idle"
    /\ calls < MaxCalls
    /\ calls' = calls + 1
    /\ thread_frame' = [thread_frame EXCEPT ![t] =
                          [op |-> "configure", kwargs |-> kwargs, caller |-> "",
                           got |-> <<>>, floor |-> returned_id]]
    /\ thread_pc' = [thread_pc EXCEPT ![t] = "cfg_acquire"]
    /\ UNCHANGED <<reconVars, confVars, parVars, calVars, obsVars, tradVars, tailVars,
                   settings, settings_lock, allocated, history, global_cache,
                   global_cache_lock, default_client, client_initialized,
                   default_client_lock, thread_ret, returned_id>>

\* A thread calls get_settings(), get_cache() or get_default_client().
CallGetter(t, op) ==
    /\ thread_pc[t] = "idle"
    /\ calls < MaxCalls
    /\ calls' = calls + 1
    /\ thread_frame' = [thread_frame EXCEPT ![t] =
                          [op |-> op, kwargs |-> <<>>, caller |-> "",
                           got |-> <<>>, floor |-> returned_id]]
    /\ thread_pc' = [thread_pc EXCEPT ![t] =
                       CASE op = "get_settings" -> "gs_check"
                         [] op = "get_cache" -> "gc_acquire"
                         [] op = "get_default_client" -> "dc_check"]
    /\ UNCHANGED <<reconVars, confVars, parVars, calVars, obsVars, tradVars, tailVars,
                   settings, settings_lock, allocated, history, global_cache,
                   global_cache_lock, default_client, client_initialized,
                   default_client_lock, thread_ret, returned_id>>

\* configure: `with _settings_lock:` is entered.
CfgAcquire(t) ==
    /\ thread_pc[t] = "cfg_acquire"
    /\ settings_lock = "free"
    /\ settings_lock' = t
    /\ thread_pc' = [thread_pc EXCEPT ![t] = "cfg_locked"]
    /\ UNCHANGED <<reconVars, confVars, parVars, calVars, obsVars, tradVars, tailVars,
                   settings, allocated, history, global_cache,
                   global_cache_lock, default_client, client_initialized,
                   default_client_lock, thread_frame, thread_ret, calls,
                   returned_id>>

\* configure: `if not kwargs: _settings = Settings()`, and the lock released.
CfgReset(t) ==
    /\ thread_pc[t] = "cfg_locked"
    /\ thread_frame[t].kwargs = <<>>
    /\ settings' = <<default_settings(allocated + 1)>>
    /\ allocated' = allocated + 1
    /\ history' = Append(history, <<>>)
    /\ settings_lock' = "free"
    /\ thread_frame' = [thread_frame EXCEPT ![t].got = settings']
    /\ thread_pc' = [thread_pc EXCEPT ![t] = "cfg_hook_client"]
    /\ UNCHANGED <<reconVars, confVars, parVars, calVars, obsVars, tradVars, tailVars,
                   global_cache, global_cache_lock, default_client,
                   client_initialized, default_client_lock, thread_ret, calls,
                   returned_id>>

\* configure: `else:` get_settings() is called, the lock held.
CfgCallGetSettings(t) ==
    /\ thread_pc[t] = "cfg_locked"
    /\ thread_frame[t].kwargs # <<>>
    /\ thread_frame' = [thread_frame EXCEPT ![t].caller = "configure"]
    /\ thread_pc' = [thread_pc EXCEPT ![t] = "gs_check"]
    /\ UNCHANGED <<reconVars, confVars, parVars, calVars, obsVars, tradVars, tailVars,
                   settings, settings_lock, allocated, history, global_cache,
                   global_cache_lock, default_client, client_initialized,
                   default_client_lock, thread_ret, calls, returned_id>>

\* get_settings: `if _settings is not None: return _settings`, else on to the
\* lock.
GsCheck(t) ==
    /\ thread_pc[t] = "gs_check"
    /\ IF settings # <<>>
       THEN /\ thread_frame' = [thread_frame EXCEPT ![t].got = settings]
            /\ thread_pc' = [thread_pc EXCEPT ![t] =
                               after_get_settings(thread_frame[t].caller)]
       ELSE /\ thread_pc' = [thread_pc EXCEPT ![t] = "gs_acquire"]
            /\ UNCHANGED thread_frame
    /\ UNCHANGED <<reconVars, confVars, parVars, calVars, obsVars, tradVars, tailVars,
                   settings, settings_lock, allocated, history, global_cache,
                   global_cache_lock, default_client, client_initialized,
                   default_client_lock, thread_ret, calls, returned_id>>

\* get_settings: `with _settings_lock:` is entered.
GsAcquire(t) ==
    /\ thread_pc[t] = "gs_acquire"
    /\ settings_lock = "free"
    /\ settings_lock' = t
    /\ thread_pc' = [thread_pc EXCEPT ![t] = "gs_locked"]
    /\ UNCHANGED <<reconVars, confVars, parVars, calVars, obsVars, tradVars, tailVars,
                   settings, allocated, history, global_cache,
                   global_cache_lock, default_client, client_initialized,
                   default_client_lock, thread_frame, thread_ret, calls,
                   returned_id>>

\* get_settings: `if _settings is None: _settings = Settings()`,
\* `return _settings`, and the lock released.
GsLocked(t) ==
    /\ thread_pc[t] = "gs_locked"
    /\ IF settings = <<>>
       THEN /\ settings' = <<default_settings(allocated + 1)>>
            /\ allocated' = allocated + 1
       ELSE UNCHANGED <<settings, allocated>>
    /\ thread_frame' = [thread_frame EXCEPT ![t].got = settings']
    /\ settings_lock' = "free"
    /\ thread_pc' = [thread_pc EXCEPT ![t] =
                       after_get_settings(thread_frame[t].caller)]
    /\ UNCHANGED <<reconVars, confVars, parVars, calVars, obsVars, tradVars, tailVars,
                   history, global_cache, global_cache_lock, default_client,
                   client_initialized, default_client_lock, thread_ret, calls,
                   returned_id>>

\* A get_settings() call of the thread itself returns.
GsReturn(t) ==
    /\ thread_pc[t] = "gs_return"
    /\ thread_ret' = [thread_ret EXCEPT ![t] =
                        [op |-> "get_settings", value |-> thread_frame[t].got,
                         raised |-> "", floor |-> thread_frame[t].floor]]
    /\ thread_frame' = [thread_frame EXCEPT ![t] = no_frame]
    /\ thread_pc' = [thread_pc EXCEPT ![t] = "idle"]
    /\ UNCHANGED <<reconVars, confVars, parVars, calVars, obsVars, tradVars, tailVars,
                   settings, settings_lock, allocated, history, global_cache,
                   global_cache_lock, default_client, client_initialized,
                   default_client_lock, calls, returned_id>>

\* configure: `_settings = replace(get_settings(), **kwargs)` and the lock
\* released; an unknown key raises TypeError out of the `with` block.
CfgReplace(t) ==
    /\ thread_pc[t] = "cfg_replace"
    /\ settings_lock' = "free"
    /\ IF unknown_key(thread_frame[t].kwargs)
       THEN /\ thread_ret' = [thread_ret EXCEPT ![t] =
                                [op |-> "configure", value |-> <<>>,
                                 raised |-> "TypeError",
                                 floor |-> thread_frame[t].floor]]
            /\ thread_frame' = [thread_frame EXCEPT ![t] = no_frame]
            /\ thread_pc' = [thread_pc EXCEPT ![t] = "idle"]
            /\ UNCHANGED <<settings, allocated, history>>
       ELSE /\ settings' = <<replace(thread_frame[t].got[1], thread_frame[t].kwargs,
                                     allocated + 1)>>
            /\ allocated' = allocated + 1
            /\ history' = Append(history, thread_frame[t].kwargs)
            /\ thread_frame' = [thread_frame EXCEPT ![t].got = settings']
            /\ thread_pc' = [thread_pc EXCEPT ![t] = "cfg_hook_client"]
            /\ UNCHANGED thread_ret
    /\ UNCHANGED <<reconVars, confVars, parVars, calVars, obsVars, tradVars, tailVars,
                   global_cache, global_cache_lock, default_client,
                   client_initialized, default_client_lock, calls, returned_id>>

\* configure: the first hook, llm.reset_default_client, under its lock.
CfgHookClient(t) ==
    /\ thread_pc[t] = "cfg_hook_client"
    /\ default_client_lock = "free"
    /\ default_client' = <<>>
    /\ client_initialized' = FALSE
    /\ thread_pc' = [thread_pc EXCEPT ![t] = "cfg_hook_cache"]
    /\ UNCHANGED <<reconVars, confVars, parVars, calVars, obsVars, tradVars, tailVars,
                   settings, settings_lock, allocated, history, global_cache,
                   global_cache_lock, default_client_lock, thread_frame,
                   thread_ret, calls, returned_id>>

\* configure: the second hook, cache._reset_global_cache, under its lock.
CfgHookCache(t) ==
    /\ thread_pc[t] = "cfg_hook_cache"
    /\ global_cache_lock = "free"
    /\ global_cache' = <<>>
    /\ thread_pc' = [thread_pc EXCEPT ![t] = "cfg_return"]
    /\ UNCHANGED <<reconVars, confVars, parVars, calVars, obsVars, tradVars, tailVars,
                   settings, settings_lock, allocated, history,
                   global_cache_lock, default_client, client_initialized,
                   default_client_lock, thread_frame, thread_ret, calls,
                   returned_id>>

\* configure: `return _settings`, the global read once more.
CfgReturn(t) ==
    /\ thread_pc[t] = "cfg_return"
    /\ thread_ret' = [thread_ret EXCEPT ![t] =
                        [op |-> "configure", value |-> settings, raised |-> "",
                         floor |-> thread_frame[t].floor]]
    /\ returned_id' = IF thread_frame[t].got[1].id > returned_id
                      THEN thread_frame[t].got[1].id
                      ELSE returned_id
    /\ thread_frame' = [thread_frame EXCEPT ![t] = no_frame]
    /\ thread_pc' = [thread_pc EXCEPT ![t] = "idle"]
    /\ UNCHANGED <<reconVars, confVars, parVars, calVars, obsVars, tradVars, tailVars,
                   settings, settings_lock, allocated, history, global_cache,
                   global_cache_lock, default_client, client_initialized,
                   default_client_lock, calls>>

\* get_cache: `with _global_cache_lock:` is entered.
GcAcquire(t) ==
    /\ thread_pc[t] = "gc_acquire"
    /\ global_cache_lock = "free"
    /\ global_cache_lock' = t
    /\ thread_pc' = [thread_pc EXCEPT ![t] = "gc_locked"]
    /\ UNCHANGED <<reconVars, confVars, parVars, calVars, obsVars, tradVars, tailVars,
                   settings, settings_lock, allocated, history, global_cache,
                   default_client, client_initialized, default_client_lock,
                   thread_frame, thread_ret, calls, returned_id>>

\* get_cache: `if _global_cache is None:` IRCache() is called, which calls
\* get_settings(); else the lock is released.
GcLocked(t) ==
    /\ thread_pc[t] = "gc_locked"
    /\ IF global_cache = <<>>
       THEN /\ thread_frame' = [thread_frame EXCEPT ![t].caller = "IRCache"]
            /\ thread_pc' = [thread_pc EXCEPT ![t] = "gs_check"]
            /\ UNCHANGED global_cache_lock
       ELSE /\ global_cache_lock' = "free"
            /\ thread_pc' = [thread_pc EXCEPT ![t] = "gc_return"]
            /\ UNCHANGED thread_frame
    /\ UNCHANGED <<reconVars, confVars, parVars, calVars, obsVars, tradVars, tailVars,
                   settings, settings_lock, allocated, history, global_cache,
                   default_client, client_initialized, default_client_lock,
                   thread_ret, calls, returned_id>>

\* get_cache: `_global_cache = IRCache(...)` and the lock released.
GcInstall(t) ==
    /\ thread_pc[t] = "gc_install"
    /\ global_cache' = <<new_cache(thread_frame[t].got[1])>>
    /\ global_cache_lock' = "free"
    /\ thread_pc' = [thread_pc EXCEPT ![t] = "gc_return"]
    /\ UNCHANGED <<reconVars, confVars, parVars, calVars, obsVars, tradVars, tailVars,
                   settings, settings_lock, allocated, history, default_client,
                   client_initialized, default_client_lock, thread_frame,
                   thread_ret, calls, returned_id>>

\* get_cache: `return _global_cache`, the global read after the `with` block.
GcReturn(t) ==
    /\ thread_pc[t] = "gc_return"
    /\ thread_ret' = [thread_ret EXCEPT ![t] =
                        [op |-> "get_cache", value |-> global_cache,
                         raised |-> "", floor |-> thread_frame[t].floor]]
    /\ thread_frame' = [thread_frame EXCEPT ![t] = no_frame]
    /\ thread_pc' = [thread_pc EXCEPT ![t] = "idle"]
    /\ UNCHANGED <<reconVars, confVars, parVars, calVars, obsVars, tradVars, tailVars,
                   settings, settings_lock, allocated, history, global_cache,
                   global_cache_lock, default_client, client_initialized,
                   default_client_lock, calls, returned_id>>

\* get_default_client: `if _client_initialized:` without the lock.
DcCheck(t) ==
    /\ thread_pc[t] = "dc_check"
    /\ thread_pc' = [thread_pc EXCEPT ![t] =
                       IF client_initialized THEN "dc_return" ELSE "dc_acquire"]
    /\ UNCHANGED <<reconVars, confVars, parVars, calVars, obsVars, tradVars, tailVars,
                   settings, settings_lock, allocated, history, global_cache,
                   global_cache_lock, default_client, client_initialized,
                   default_client_lock, thread_frame, thread_ret, calls,
                   returned_id>>

\* get_default_client: `with _default_client_lock:` is entered.
DcAcquire(t) ==
    /\ thread_pc[t] = "dc_acquire"
    /\ default_client_lock = "free"
    /\ default_client_lock' = t
    /\ thread_pc' = [thread_pc EXCEPT ![t] = "dc_locked"]
    /\ UNCHANGED <<reconVars, confVars, parVars, calVars, obsVars, tradVars, tailVars,
                   settings, settings_lock, allocated, history, global_cache,
                   global_cache_lock, default_client, client_initialized,
                   thread_frame, thread_ret, calls, returned_id>>

\* get_default_client: `if not _client_initialized:` GeminiClient() is called,
\* which calls get_settings(); else the lock is released.
DcLocked(t) ==
    /\ thread_pc[t] = "dc_locked"
    /\ IF ~client_initialized
       THEN /\ thread_frame' = [thread_frame EXCEPT ![t].caller = "GeminiClient"]
            /\ thread_pc' = [thread_pc EXCEPT ![t] = "gs_check"]
            /\ UNCHANGED default_client_lock
       ELSE /\ default_client_lock' = "free"
            /\ thread_pc' = [thread_pc EXCEPT ![t] = "dc_return"]
            /\ UNCHANGED thread_frame
    /\ UNCHANGED <<reconVars, confVars, parVars, calVars, obsVars, tradVars, tailVars,
                   settings, settings_lock, allocated, history, global_cache,
                   global_cache_lock, default_client, client_initialized,
                   thread_ret, calls, returned_id>>

\* get_default_client: `_default_client = GeminiClient()`,
\* `_client_initialized = True`, and the lock released.
DcInstall(t) ==
    /\ thread_pc[t] = "dc_install"
    /\ default_client' = <<new_client(thread_frame[t].got[1])>>
    /\ client_initialized' = TRUE
    /\ default_client_lock' = "free"
    /\ thread_pc' = [thread_pc EXCEPT ![t] = "dc_return"]
    /\ UNCHANGED <<reconVars, confVars, parVars, calVars, obsVars, tradVars, tailVars,
                   settings, settings_lock, allocated, history, global_cache,
                   global_cache_lock, thread_frame, thread_ret, calls,
                   returned_id>>

\* get_default_client: `return _default_client`, the global read without the
\* lock.
DcReturn(t) ==
    /\ thread_pc[t] = "dc_return"
    /\ thread_ret' = [thread_ret EXCEPT ![t] =
                        [op |-> "get_default_client", value |-> default_client,
                         raised |-> "", floor |-> thread_frame[t].floor]]
    /\ thread_frame' = [thread_frame EXCEPT ![t] = no_frame]
    /\ thread_pc' = [thread_pc EXCEPT ![t] = "idle"]
    /\ UNCHANGED <<reconVars, confVars, parVars, calVars, obsVars, tradVars, tailVars,
                   settings, settings_lock, allocated, history, global_cache,
                   global_cache_lock, default_client, client_initialized,
                   default_client_lock, calls, returned_id>>

CfgNext ==
    \E t \in Threads :
        \/ \E kwargs \in KwargsChoices : CallConfigure(t, kwargs)
        \/ \E op \in {"get_settings", "get_cache", "get_default_client"} :
              CallGetter(t, op)
        \/ CfgAcquire(t)
        \/ CfgReset(t)
        \/ CfgCallGetSettings(t)
        \/ GsCheck(t)
        \/ GsAcquire(t)
        \/ GsLocked(t)
        \/ GsReturn(t)
        \/ CfgReplace(t)
        \/ CfgHookClient(t)
        \/ CfgHookCache(t)
        \/ CfgReturn(t)
        \/ GcAcquire(t)
        \/ GcLocked(t)
        \/ GcInstall(t)
        \/ GcReturn(t)
        \/ DcCheck(t)
        \/ DcAcquire(t)
        \/ DcLocked(t)
        \/ DcInstall(t)
        \/ DcReturn(t)

InitConfig ==
    CfgImported /\ ReconIdle /\ ConfIdle /\ ParIdle /\ CalIdle /\ ObsIdle /\ TradIdle
    /\ TailIdle

SpecConfig == InitConfig /\ [][CfgNext]_vars

----------------------------------------------------------------------------
(* Claims about configure and the singletons.                               *)

\* C18: configure(**kwargs) with valid keys always returns, also as the first
\* call that touches the singleton and with get_settings() running in other
\* threads: it never blocks forever on _settings_lock.  A thread that waits to
\* acquire _settings_lock while holding it itself waits forever, the lock not
\* being reentrant and nobody else being able to release it; so no thread
\* ever waits for _settings_lock while it is the holder.
C18_ConfigureReturns ==
    \A t \in Threads : thread_pc[t] = "gs_acquire" => settings_lock # t

\* The fields of a Settings object, its identity left out.
settings_fields(s) == [cache_ttl_days |-> s.cache_ttl_days, llm_timeout |-> s.llm_timeout]

\* The defaults overridden by the kwargs of the configure calls in h since the
\* last argument-less one, later calls winning.
overridden(fields, kwargs) ==
    [f \in SettingsFields |->
        IF \E i \in 1..Len(kwargs) : kwargs[i][1] = f
        THEN kwargs[CHOOSE i \in 1..Len(kwargs) : kwargs[i][1] = f][2]
        ELSE fields[f]]

RECURSIVE Fold(_)
Fold(h) ==
    IF h = <<>> \/ h[Len(h)] = <<>>
    THEN settings_fields(default_settings(0))
    ELSE overridden(Fold(SubSeq(h, 1, Len(h) - 1)), h[Len(h)])

\* C19: the settings are the fold of the history of successful configure
\* calls (defaults, overridden by the kwargs of every call since the last
\* argument-less configure(), later calls winning, unnamed fields untouched);
\* what get_settings() returned is that fold at some point of the history;
\* a configure call that raised TypeError is no part of the history, the
\* settings being as they were.
C19_SettingsFold ==
    /\ settings = <<>> => history = <<>>
    /\ settings # <<>> => settings_fields(settings[1]) = Fold(history)
    /\ \A t \in Threads :
          thread_ret[t].op = "get_settings" =>
             \E k \in 0..Len(history) :
                settings_fields(thread_ret[t].value[1]) = Fold(SubSeq(history, 1, k))

C19_Witness ==
    /\ \A t \in Threads : thread_pc[t] = "idle"
    /\ \E t \in Threads : thread_ret[t].raised = "TypeError"
    /\ \E t \in Threads : thread_ret[t].op = "configure" /\ thread_ret[t].raised = ""
    /\ history # <<>>
    /\ history[Len(history)] # <<>>
    /\ settings_fields(settings[1]) # settings_fields(default_settings(0))

\* C20: once a configure call has returned, every get_cache() and
\* get_default_client() call made later returns an instance, and one built
\* from settings at least as new as those of that configure call.
C20_SingletonReset ==
    \A t \in Threads :
        (thread_ret[t].op \in {"get_cache", "get_default_client"}
           /\ thread_ret[t].floor >= 1)
        => /\ thread_ret[t].value # <<>>
           /\ thread_ret[t].value[1].settings_id >= thread_ret[t].floor

----------------------------------------------------------------------------
\* The instants the row's present observations give.
ObservedInstants == {row[c] : c \in {d \in DatetimeColSet : Present(d)}}

\* C29: candidate completeness.  For every row the set of instants in
\* candidate_datetimes equals the set of instants of the row's present
\* observations among ir, inferred, sbi, matsui and tradersweb: none is left
\* out in any branch, and none appears that was not observed.
C29_CandidateCompleteness ==
    built => ElemsOf(result.candidates) = ObservedInstants

\* Two scrapers agree, a third and the inferred value differ from them and
\* from each other: the agreement branch has values outside its group.
C29_Witness ==
    /\ built
    /\ ~IrPresent
    /\ result.confidence = "high"
    /\ ~InferredMatchesScraper
    /\ InferredPresent
    /\ ScrapersAgree
    /\ Cardinality(ObservedInstants) = 3
    /\ Len(PresentScrapers) = 3

----------------------------------------------------------------------------
(* run_parallel under a fair scheduler: a thread that can take a step       *)
(* takes one in the end, and a callable that was started returns or raises. *)

SpecParallelFair == InitParallel /\ [][ParNext]_vars /\ WF_vars(ParNext)

\* The tasks whose callable returns.
ReturningTasks == {n \in TaskNames : tasks[n] = "returns"}

\* run_parallel has returned with every operation finished and every result.
ReturnedComplete ==
    /\ running = {}
    /\ work_queue = <<>>
    /\ num_threads = 0
    /\ \A n \in TaskNames : future_state[n] = "FINISHED" /\ runs[n] = 1
    /\ DOMAIN results = ReturningTasks
    /\ ~raised

\* C26: runner termination.  For every finite task mapping whose operations
\* return or raise, run_parallel returns in the end, and only after every
\* submitted operation has finished, no operation still running and no
\* result missing; for an empty mapping it returns an empty mapping without
\* creating a worker.
C26_RunnerTermination ==
    /\ <>(pc = "done")
    /\ [](pc = "done" => ReturnedComplete)
    /\ [](Len(tasks) = 0 => num_threads = 0 /\ submitted = 0 /\ results = <<>>)

\* More tasks than workers, a task raising, and run_parallel has returned.
C26_Witness ==
    /\ pc = "done"
    /\ Len(tasks) = MaxTasks
    /\ max_workers < Len(tasks)
    /\ \E n \in TaskNames : tasks[n] = "raises"
    /\ \E n \in TaskNames : tasks[n] = "returns"

----------------------------------------------------------------------------
(* check_sources: the health checks of ALL_SOURCES through run_parallel.    *)

\* What a source's check() comes to: enough rows, too few rows, an exception
\* of the kinds check() catches and reports in its dict, or an exception of
\* another kind, which leaves check().
CheckOutcomes == {"ok", "too_few", "reported", "raises"}

\* EarningsSource.check(): the dict it returns.
check_result(source, outcome) ==
    [name |-> source,
     ok |-> outcome = "ok",
     rows |-> IF outcome = "ok" THEN 1 ELSE 0,
     error |-> CASE outcome = "ok" -> "None"
                 [] outcome = "too_few" -> "Expected >= 1 rows, got 0"
                 [] outcome = "reported" -> "str(e)"]

\* The task dict of check_sources: the callable of a source returns check()'s
\* dict, or raises what check() let through.
check_tasks(outcomes) ==
    [i \in 1..Len(SourceNames) |->
        IF outcomes[i] = "raises" THEN "raises" ELSE "returns"]

\* results[src.name]: whether the key is there (else KeyError).
results_lookup(res, i) == i \in DOMAIN res

ChkInit ==
    /\ chk_pc = "start"
    /\ chk_outcomes \in [1..Len(SourceNames) -> CheckOutcomes]
    /\ chk_ret = <<>>
    /\ chk_raised = ""

\* `sources = list(ALL_SOURCES)`, the task dict, and the call of
\* run_parallel(tasks, max_workers=len(sources)).
ChkCallRunParallel ==
    /\ chk_pc = "start"
    /\ tasks' = check_tasks(chk_outcomes)
    /\ max_workers' = Len(SourceNames)
    /\ pc' = "call"
    /\ future_state' = [n \in 1..Len(SourceNames) |-> "NONE"]
    /\ runs' = [n \in 1..Len(SourceNames) |-> 0]
    /\ chk_pc' = "running"
    /\ UNCHANGED <<reconVars, confVars, calVars, obsVars, tradVars, cfgVars,
                   submitted, work_queue, num_threads, idle_semaphore, running,
                   releasing, yielded, results, results_keys, warned, raised,
                   chk_outcomes, chk_ret, chk_raised, irVars, icVars, stgVars>>

\* `return [results[src.name] for src in sources]`
ChkReturn ==
    /\ chk_pc = "running"
    /\ pc = "done"
    /\ chk_pc' = "done"
    /\ IF \A i \in 1..Len(SourceNames) : results_lookup(results, i)
       THEN /\ chk_ret' = [i \in 1..Len(SourceNames) |->
                              check_result(SourceNames[i], chk_outcomes[i])]
            /\ UNCHANGED chk_raised
       ELSE /\ chk_raised' = "KeyError"
            /\ UNCHANGED chk_ret
    /\ UNCHANGED <<reconVars, confVars, parVars, calVars, obsVars, tradVars,
                   cfgVars, chk_outcomes, irVars, icVars, stgVars>>

ChkNext ==
    \/ ChkCallRunParallel
    \/ ParRun
    \/ ChkReturn

InitCheck ==
    ChkInit /\ ReconIdle /\ ConfIdle /\ ParIdle /\ CalIdle /\ ObsIdle /\ TradIdle
    /\ CfgImported /\ IrIdle /\ IcIdle /\ StgIdle

SpecCheck == InitCheck /\ [][ChkNext]_vars

\* C25: check_sources returns one result per source.  For every outcome of
\* the health checks (success, too few rows, a check that raises any
\* exception) and every completion order, check_sources returns without
\* raising a list with exactly one dict per configured source, in ALL_SOURCES
\* order.
C25_OneResultPerSource ==
    chk_pc = "done" =>
        /\ chk_raised = ""
        /\ Len(chk_ret) = Len(SourceNames)
        /\ \A i \in 1..Len(SourceNames) : chk_ret[i].name = SourceNames[i]

----------------------------------------------------------------------------
(* IRCache: the entries of the cache, and what get, set and delete do to    *)
(* them.  A str is a pair <<"iso", d>> when it is the ISO form of the day   *)
(* or datetime d, and <<"bad", 0>> when it is no ISO form at all; an enum   *)
(* member is <<"enum", value>>, a plain str argument <<"str", text>>.       *)

\* Settings.cache_ttl_days, in days of the model's clock.
TtlDays == 1
\* The last day of the model's clock.
MaxClock == 3
\* _get_ir_datetime calls in one run.
MaxLookups == 3

\* The values of IRPageType.
PageTypeValues == {"calendar", "news", "library", "landing", "unknown"}

\* `try: IRPageType(raw)  except ValueError: IRPageType.UNKNOWN`
page_type_or_unknown(raw) ==
    IF raw \in PageTypeValues THEN <<"enum", raw>> ELSE <<"enum", "unknown">>

\* `if isinstance(ir_type, str):` the str made an enum member.
normalize_ir_type(ir_type) ==
    IF ir_type[1] = "str" THEN page_type_or_unknown(ir_type[2]) ELSE ir_type

\* datetime.isoformat(), and whether datetime.fromisoformat / pd.Timestamp
\* take the str, and what they make of it.
isoformat(d) == <<"iso", d>>
is_iso(str) == str[1] = "iso"
fromisoformat(str) == str[2]

\* CacheEntry.is_expired(ttl_days)
is_expired(entry, ttl_days, now) ==
    IF is_iso(entry.last_updated)
    THEN now > fromisoformat(entry.last_updated) + ttl_days
    ELSE TRUE

\* IRCache.get(code) past the lock and _load: <<>> for None, else <<entry>>.
cache_get(cache, code, ttl_days, now) ==
    IF code \notin DOMAIN cache THEN <<>>
    ELSE IF is_expired(cache[code], ttl_days, now) THEN <<>>
    ELSE <<cache[code]>>

\* IRCache.set, `else:` a new CacheEntry.  The optional datetime argument is
\* <<>> for None, else <<the datetime>>.
new_entry(ir_url, ir_type, last_earnings_datetime, now) ==
    [ir_url |-> ir_url,
     ir_type |-> normalize_ir_type(ir_type),
     last_updated |-> isoformat(now),
     success_count |-> 1,
     last_earnings_datetime |->
        IF last_earnings_datetime # <<>>
        THEN isoformat(last_earnings_datetime[1])
        ELSE <<>>]

\* IRCache.set, `if existing and existing.ir_url == ir_url:` the entry updated.
updated_entry(existing, last_earnings_datetime, now) ==
    [existing EXCEPT
        !.last_updated = isoformat(now),
        !.success_count = @ + 1,
        !.last_earnings_datetime =
            IF last_earnings_datetime # <<>>
            THEN isoformat(last_earnings_datetime[1])
            ELSE @]

\* Mutant of entry_after_set: a new entry whatever the cache holds.
entry_always_new(cache, code, ir_url, ir_type, last_earnings_datetime, now) ==
    new_entry(ir_url, ir_type, last_earnings_datetime, now)

\* The entry IRCache.set leaves under the code and returns.
entry_after_set(cache, code, ir_url, ir_type, last_earnings_datetime, now) ==
    IF code \in DOMAIN cache /\ cache[code].ir_url = ir_url
    THEN updated_entry(cache[code], last_earnings_datetime, now)
    ELSE new_entry(ir_url, ir_type, last_earnings_datetime, now)

\* self._cache after IRCache.set.
cache_set(cache, code, ir_url, ir_type, last_earnings_datetime, now) ==
    [c \in DOMAIN cache \cup {code} |->
        IF c = code
        THEN entry_after_set(cache, code, ir_url, ir_type, last_earnings_datetime, now)
        ELSE cache[c]]

\* `del self._cache[code]`
cache_delete(cache, code) == [c \in DOMAIN cache \ {code} |-> cache[c]]

----------------------------------------------------------------------------
(* _get_ir_datetime: the lookups of one company over the days, eager or     *)
(* not, with what discovery and parsing find left open.                     *)

\* The company looked up.
the_code == 1

\* The URLs discovery may come up with, and the datetimes a page may state.
IrUrls == {"https://example.com/ir/", "https://example.com/ir/calendar/"}
IrTimes == {d * 1440 + 900 : d \in 0..(MaxDay - 1)}

\* An entry of a cache file edited by hand, its datetime no ISO form.
edited_entry ==
    [ir_url |-> "https://example.com/ir/",
     ir_type |-> <<"enum", "calendar">>,
     last_updated |-> isoformat(0),
     success_count |-> 1,
     last_earnings_datetime |-> <<"bad", 0>>]

\* Mutant of first_step: eager is not looked at.
first_step_cached(eager) == "get_cached"

\* `if not eager:` where the call begins.
first_step(eager) == IF eager THEN "discover_ir_page" ELSE "get_cached"

IrInit ==
    /\ ir_clock = 0
    /\ ir_cache \in {<<>>, (the_code :> edited_entry)}
    /\ ir_pc = "idle"
    /\ ir_call = no_lookup
    /\ ir_log = <<>>
    /\ ir_ret = NaT
    /\ ir_stored = <<>>
    /\ ir_lookups = 0

\* A day passes between two lookups.
IrTick ==
    /\ ir_pc = "idle"
    /\ ir_clock < MaxClock
    /\ ir_clock' = ir_clock + 1
    /\ UNCHANGED <<reconVars, confVars, parVars, calVars, obsVars, tradVars,
                   cfgVars, chkVars, icVars, stgVars, ir_cache, ir_pc, ir_call,
                   ir_log, ir_ret, ir_stored, ir_lookups>>

\* _get_ir_datetime(code, eager) is called.
IrCall(eager) ==
    /\ ir_pc = "idle"
    /\ ir_lookups < MaxLookups
    /\ ir_lookups' = ir_lookups + 1
    /\ ir_call' = [eager |-> eager, day |-> ir_clock, at_call |-> ir_cache,
                   page |-> <<>>, info |-> <<>>]
    /\ ir_log' = <<>>
    /\ ir_pc' = first_step(eager)
    /\ UNCHANGED <<reconVars, confVars, parVars, calVars, obsVars, tradVars,
                   cfgVars, chkVars, icVars, stgVars, ir_clock, ir_cache, ir_ret,
                   ir_stored>>

\* `cached = get_cached(code)`; with a datetime that pd.Timestamp takes, it
\* is returned, otherwise the call goes on to discovery.
IrGetCached ==
    /\ ir_pc = "get_cached"
    /\ ir_log' = Append(ir_log, "get_cached")
    /\ LET cached == cache_get(ir_cache, the_code, TtlDays, ir_clock)
       IN  IF /\ cached # <<>>
              /\ cached[1].last_earnings_datetime # <<>>
              /\ is_iso(cached[1].last_earnings_datetime)
           THEN /\ ir_ret' = fromisoformat(cached[1].last_earnings_datetime)
                /\ ir_pc' = "idle"
           ELSE /\ ir_pc' = "discover_ir_page"
                /\ UNCHANGED ir_ret
    /\ UNCHANGED <<reconVars, confVars, parVars, calVars, obsVars, tradVars,
                   cfgVars, chkVars, icVars, stgVars, ir_clock, ir_cache, ir_call,
                   ir_stored, ir_lookups>>

\* `page_info = discover_ir_page(...)`: None (<<>>) or a page; without a page
\* NaT is returned.
IrDiscover(page) ==
    /\ ir_pc = "discover_ir_page"
    /\ ir_log' = Append(ir_log, "discover_ir_page")
    /\ ir_call' = [ir_call EXCEPT !.page = page]
    /\ IF page = <<>>
       THEN ir_ret' = NaT /\ ir_pc' = "idle"
       ELSE ir_pc' = "parse_earnings_datetime" /\ UNCHANGED ir_ret
    /\ UNCHANGED <<reconVars, confVars, parVars, calVars, obsVars, tradVars,
                   cfgVars, chkVars, icVars, stgVars, ir_clock, ir_cache,
                   ir_stored, ir_lookups>>

\* `earnings_info = parse_earnings_datetime(page_info.url, ...)`: nothing
\* found (<<>>) or a datetime.
IrParse(info) ==
    /\ ir_pc = "parse_earnings_datetime"
    /\ ir_log' = Append(ir_log, "parse_earnings_datetime")
    /\ ir_call' = [ir_call EXCEPT !.info = info]
    /\ ir_pc' = "save_cache"
    /\ UNCHANGED <<reconVars, confVars, parVars, calVars, obsVars, tradVars,
                   cfgVars, chkVars, icVars, stgVars, ir_clock, ir_cache, ir_ret,
                   ir_stored, ir_lookups>>

\* save_cache(...) without or with last_earnings_datetime, and the return of
\* NaT or of the datetime.
IrSaveCache ==
    /\ ir_pc = "save_cache"
    /\ ir_log' = Append(ir_log, "save_cache")
    /\ ir_cache' = cache_set(ir_cache, the_code, ir_call.page[1],
                             <<"enum", "calendar">>, ir_call.info, ir_clock)
    /\ IF ir_call.info = <<>>
       THEN ir_ret' = NaT /\ UNCHANGED ir_stored
       ELSE /\ ir_ret' = ir_call.info[1]
            /\ ir_stored' = <<[datetime |-> ir_call.info[1], day |-> ir_clock]>>
    /\ ir_pc' = "idle"
    /\ UNCHANGED <<reconVars, confVars, parVars, calVars, obsVars, tradVars,
                   cfgVars, chkVars, icVars, stgVars, ir_clock, ir_call,
                   ir_lookups>>

IrNext ==
    \/ IrTick
    \/ \E eager \in BOOLEAN : IrCall(eager)
    \/ IrGetCached
    \/ \E page \in {<<>>} \cup {<<u>> : u \in IrUrls} : IrDiscover(page)
    \/ \E info \in {<<>>} \cup {<<d>> : d \in IrTimes} : IrParse(info)
    \/ IrSaveCache

InitLookup ==
    IrInit /\ ReconIdle /\ ConfIdle /\ ParIdle /\ CalIdle /\ ObsIdle /\ TradIdle
    /\ CfgImported /\ ChkIdle /\ IcIdle /\ StgIdle

SpecLookup == InitLookup /\ [][IrNext]_vars

\* The last call has returned.
IrReturned == ir_pc = "idle" /\ ir_log # <<>>

\* When the call was made the cache held an unexpired entry for the company
\* with a datetime that can be parsed.
HitAtCall ==
    /\ the_code \in DOMAIN ir_call.at_call
    /\ LET entry == ir_call.at_call[the_code]
       IN  /\ entry.last_updated[1] = "iso"
           /\ ir_call.day <= entry.last_updated[2] + TtlDays
           /\ entry.last_earnings_datetime # <<>>
           /\ entry.last_earnings_datetime[1] = "iso"

\* How often the call has done `what`.
Times(what) == Cardinality({i \in 1..Len(ir_log) : ir_log[i] = what})

\* C21: the IR lookup protocol.  A non-eager call that finds an unexpired
\* entry with a parseable last_earnings_datetime returns that value, and
\* neither discovery, parsing nor a cache write happens; an eager call never
\* reads the cache and always runs discovery.  In every call parsing is
\* attempted only after discovery returned a page, and the cache is written
\* exactly once if a page was discovered and not at all otherwise.
C21_LookupProtocol ==
    /\ (IrReturned /\ ~ir_call.eager /\ HitAtCall) =>
          /\ ir_log = <<"get_cached">>
          /\ ir_ret = ir_call.at_call[the_code].last_earnings_datetime[2]
    /\ ir_call.eager =>
          /\ Times("get_cached") = 0
          /\ IrReturned => Times("discover_ir_page") = 1
    /\ \A i \in 1..Len(ir_log) :
          ir_log[i] = "parse_earnings_datetime" =>
             /\ ir_call.page # <<>>
             /\ \E j \in 1..(i - 1) : ir_log[j] = "discover_ir_page"
    /\ Times("save_cache") <= 1
    /\ Times("save_cache") = 1 => ir_call.page # <<>>
    /\ IrReturned =>
          Times("save_cache") = (IF ir_call.page # <<>> THEN 1 ELSE 0)

\* A non-eager call answered from the cache, after an eager one had the
\* entry written.
C21_Witness ==
    /\ IrReturned
    /\ ~ir_call.eager
    /\ HitAtCall
    /\ ir_log = <<"get_cached">>
    /\ ir_stored # <<>>
    /\ ir_cache[the_code].success_count >= 2

\* C22: cached IR datetimes expire.  A non-eager lookup returns a datetime
\* from the cache only if that datetime was stored by a successful parse no
\* more than ttl_days ago; after that the lookup falls through to discovery
\* and parsing, and the old datetime is not served again unless a new parse
\* succeeds.
C22_CachedDatetimesExpire ==
    (IrReturned /\ ir_log = <<"get_cached">>) =>
        /\ ir_stored # <<>>
        /\ ir_stored[1].datetime = ir_ret
        /\ ir_call.day - ir_stored[1].day <= TtlDays

----------------------------------------------------------------------------
(* One IRCache instance used by two threads: get, set, delete and clear,    *)
(* each under self._lock, with _load on first use and _save after a change. *)
(* The cache file is <<>> while it does not exist, else <<companies>>, the  *)
(* "companies" object with every ir_type a plain str.                       *)

\* Calls made on the instance in one run.
MaxCacheCalls == 2
\* The last day of the clock the instance reads.
MaxCacheDay == 2

\* The companies and the datetime the calls are made with.
CacheCodes == {1, 2}
CacheTimes == {900}

\* CacheEntry.to_dict(): the enum member replaced by its value.
to_dict(entry) == [entry EXCEPT !.ir_type = <<"str", entry.ir_type[2]>>]

\* CacheEntry.from_dict(data): the ir_type str made a member, UNKNOWN when it
\* is no value of IRPageType.
from_dict(data) == [data EXCEPT !.ir_type = page_type_or_unknown(data.ir_type[2])]

\* _save: the "companies" object built from self._cache.
companies(cache) == [c \in DOMAIN cache |-> to_dict(cache[c])]

\* _load: self._cache as read from the file; nothing when there is no file.
loaded(file) ==
    IF file = <<>> THEN <<>>
    ELSE [c \in DOMAIN file[1] |-> from_dict(file[1][c])]

\* A cache file written by hand: one company, its ir_type no value of
\* IRPageType.
edited_file ==
    <<(1 :> [ir_url |-> "https://example.com/ir/",
             ir_type |-> <<"str", "investor">>,
             last_updated |-> isoformat(0),
             success_count |-> 1,
             last_earnings_datetime |-> <<>>])>>

\* The calls: get(code), delete(code), clear(), and set(code, ir_url, ir_type,
\* last_earnings_datetime=...) with ir_type an enum member for one URL and a
\* str outside the enum for the other.
ir_type_for(ir_url) ==
    IF ir_url = "https://example.com/ir/"
    THEN <<"str", "investor">>
    ELSE <<"enum", "calendar">>

the_call(op, code, ir_url, last_earnings_datetime) ==
    [no_op EXCEPT !.op = op, !.code = code, !.ir_url = ir_url,
                  !.ir_type = IF op = "set" THEN ir_type_for(ir_url) ELSE <<>>,
                  !.last_earnings_datetime = last_earnings_datetime]

\* The URLs discovery comes up with for a company: two for the first, one
\* for the others.
UrlsOf(code) ==
    IF code = 1 THEN IrUrls ELSE {"https://example.com/ir/calendar/"}

CacheCalls ==
    {the_call("get", c, "", <<>>) : c \in CacheCodes}
    \cup {the_call("delete", c, "", <<>>) : c \in CacheCodes}
    \cup {the_call("clear", 0, "", <<>>)}
    \cup UNION {{the_call("set", c, u, d) :
                    u \in UrlsOf(c),
                    d \in {<<>>} \cup {<<x>> : x \in CacheTimes}} :
                c \in CacheCodes}

\* What a call hands back to its caller, kept with its arguments.
returned(frame, value, before, now) ==
    [op |-> frame.op, code |-> frame.code, ir_url |-> frame.ir_url,
     last_earnings_datetime |-> frame.last_earnings_datetime,
     value |-> value, before |-> before, now |-> now]

IcInit ==
    /\ ic_cache = <<>>
    /\ ic_loaded = FALSE
    /\ ic_lock = "free"
    /\ ic_file \in {<<>>, edited_file}
    /\ ic_clock = 0
    /\ ic_pc = [t \in Threads |-> "idle"]
    /\ ic_frame = [t \in Threads |-> no_op]
    /\ ic_ret = [t \in Threads |-> no_op_return]
    /\ ic_latest = loaded(ic_file)
    /\ ic_calls = 0

\* Time passes.  A call reads the clock once, while it holds the lock, so a
\* day that ends during the call is one that ends just before or just after.
IcTick ==
    /\ ic_lock = "free"
    /\ ic_clock < MaxCacheDay
    /\ ic_clock' = ic_clock + 1
    /\ UNCHANGED <<reconVars, confVars, parVars, calVars, obsVars, tradVars,
                   cfgVars, chkVars, irVars, stgVars, ic_cache, ic_loaded,
                   ic_lock, ic_file, ic_pc, ic_frame, ic_ret, ic_latest,
                   ic_calls>>

\* A thread calls get, set, delete or clear.
IcCall(t, call) ==
    /\ ic_pc[t] = "idle"
    /\ ic_calls < MaxCacheCalls
    /\ ic_calls' = ic_calls + 1
    /\ ic_frame' = [ic_frame EXCEPT ![t] = call]
    /\ ic_pc' = [ic_pc EXCEPT ![t] = "with_lock"]
    /\ UNCHANGED <<reconVars, confVars, parVars, calVars, obsVars, tradVars,
                   cfgVars, chkVars, irVars, stgVars, ic_cache, ic_loaded,
                   ic_lock, ic_file, ic_clock, ic_ret, ic_latest>>

\* Mutant of IcAcquire: the lock is not waited for.
IcAcquireNoLock(t) ==
    /\ ic_pc[t] = "with_lock"
    /\ ic_lock' = t
    /\ ic_cache' = IF ic_loaded THEN ic_cache ELSE loaded(ic_file)
    /\ ic_loaded' = TRUE
    /\ ic_pc' = [ic_pc EXCEPT ![t] = ic_frame[t].op]
    /\ UNCHANGED <<reconVars, confVars, parVars, calVars, obsVars, tradVars,
                   cfgVars, chkVars, irVars, stgVars, ic_file, ic_clock,
                   ic_frame, ic_ret, ic_latest, ic_calls>>

\* `with self._lock: self._load()`: the lock taken once it is free, and the
\* file read on the instance's first use.
IcAcquire(t) ==
    /\ ic_pc[t] = "with_lock"
    /\ ic_lock = "free"
    /\ ic_lock' = t
    /\ ic_cache' = IF ic_loaded THEN ic_cache ELSE loaded(ic_file)
    /\ ic_loaded' = TRUE
    /\ ic_pc' = [ic_pc EXCEPT ![t] = ic_frame[t].op]
    /\ UNCHANGED <<reconVars, confVars, parVars, calVars, obsVars, tradVars,
                   cfgVars, chkVars, irVars, stgVars, ic_file, ic_clock,
                   ic_frame, ic_ret, ic_latest, ic_calls>>

\* get: the entry, or None, returned and the lock released.
IcGet(t) ==
    /\ ic_pc[t] = "get"
    /\ ic_ret' = [ic_ret EXCEPT ![t] =
            returned(ic_frame[t],
                     cache_get(ic_cache, ic_frame[t].code, TtlDays, ic_clock),
                     ic_latest, ic_clock)]
    /\ ic_lock' = "free"
    /\ ic_frame' = [ic_frame EXCEPT ![t] = no_op]
    /\ ic_pc' = [ic_pc EXCEPT ![t] = "idle"]
    /\ UNCHANGED <<reconVars, confVars, parVars, calVars, obsVars, tradVars,
                   cfgVars, chkVars, irVars, stgVars, ic_cache, ic_loaded,
                   ic_file, ic_clock, ic_latest, ic_calls>>

\* set: the entry updated or created, and _save as far as the data it is
\* going to write.
IcSet(t) ==
    /\ ic_pc[t] = "set"
    /\ LET f == ic_frame[t]
           entry == entry_after_set(ic_cache, f.code, f.ir_url, f.ir_type,
                                    f.last_earnings_datetime, ic_clock)
           cache == cache_set(ic_cache, f.code, f.ir_url, f.ir_type,
                              f.last_earnings_datetime, ic_clock)
       IN  /\ ic_cache' = cache
           /\ ic_latest' = [c \in DOMAIN ic_latest \cup {f.code} |->
                                IF c = f.code THEN entry ELSE ic_latest[c]]
           /\ ic_frame' = [ic_frame EXCEPT ![t] =
                    [f EXCEPT !.data = <<companies(cache)>>,
                              !.value = <<entry>>,
                              !.before = ic_cache,
                              !.now = ic_clock]]
    /\ ic_pc' = [ic_pc EXCEPT ![t] = "open"]
    /\ UNCHANGED <<reconVars, confVars, parVars, calVars, obsVars, tradVars,
                   cfgVars, chkVars, irVars, stgVars, ic_loaded, ic_lock,
                   ic_file, ic_clock, ic_ret, ic_calls>>

\* delete: an entry that exists is removed and the cache saved; without one
\* False is returned at once.
IcDelete(t) ==
    /\ ic_pc[t] = "delete"
    /\ LET f == ic_frame[t]
           cache == cache_delete(ic_cache, f.code)
       IN  IF f.code \in DOMAIN ic_cache
           THEN /\ ic_cache' = cache
                /\ ic_latest' = [c \in DOMAIN ic_latest \ {f.code} |-> ic_latest[c]]
                /\ ic_frame' = [ic_frame EXCEPT ![t] =
                        [f EXCEPT !.data = <<companies(cache)>>,
                                  !.value = <<TRUE>>,
                                  !.before = ic_cache,
                                  !.now = ic_clock]]
                /\ ic_pc' = [ic_pc EXCEPT ![t] = "open"]
                /\ UNCHANGED <<ic_lock, ic_ret>>
           ELSE /\ ic_ret' = [ic_ret EXCEPT ![t] =
                        returned(f, <<FALSE>>, ic_cache, ic_clock)]
                /\ ic_lock' = "free"
                /\ ic_frame' = [ic_frame EXCEPT ![t] = no_op]
                /\ ic_pc' = [ic_pc EXCEPT ![t] = "idle"]
                /\ UNCHANGED <<ic_cache, ic_latest>>
    /\ UNCHANGED <<reconVars, confVars, parVars, calVars, obsVars, tradVars,
                   cfgVars, chkVars, irVars, stgVars, ic_loaded, ic_file,
                   ic_clock, ic_calls>>

\* clear: every entry removed and the cache saved.
IcClear(t) ==
    /\ ic_pc[t] = "clear"
    /\ ic_cache' = <<>>
    /\ ic_latest' = <<>>
    /\ ic_frame' = [ic_frame EXCEPT ![t] =
            [ic_frame[t] EXCEPT !.data = <<companies(<<>>)>>,
                                !.value = <<Cardinality(DOMAIN ic_cache)>>,
                                !.before = ic_cache,
                                !.now = ic_clock]]
    /\ ic_pc' = [ic_pc EXCEPT ![t] = "open"]
    /\ UNCHANGED <<reconVars, confVars, parVars, calVars, obsVars, tradVars,
                   cfgVars, chkVars, irVars, stgVars, ic_loaded, ic_lock,
                   ic_file, ic_clock, ic_ret, ic_calls>>

\* _save: the file opened for writing and the data dumped; then the call
\* returns and the lock is released.
IcWrite(t) ==
    /\ ic_pc[t] = "open"
    /\ ic_file' = ic_frame[t].data
    /\ ic_ret' = [ic_ret EXCEPT ![t] =
            returned(ic_frame[t], ic_frame[t].value, ic_frame[t].before,
                     ic_frame[t].now)]
    /\ ic_lock' = "free"
    /\ ic_frame' = [ic_frame EXCEPT ![t] = no_op]
    /\ ic_pc' = [ic_pc EXCEPT ![t] = "idle"]
    /\ UNCHANGED <<reconVars, confVars, parVars, calVars, obsVars, tradVars,
                   cfgVars, chkVars, irVars, stgVars, ic_cache, ic_loaded,
                   ic_clock, ic_latest, ic_calls>>

IcNext ==
    \/ IcTick
    \/ \E t \in Threads, call \in CacheCalls : IcCall(t, call)
    \/ \E t \in Threads : IcAcquire(t)
    \/ \E t \in Threads : IcGet(t)
    \/ \E t \in Threads : IcSet(t)
    \/ \E t \in Threads : IcDelete(t)
    \/ \E t \in Threads : IcClear(t)
    \/ \E t \in Threads : IcWrite(t)

InitCache ==
    IcInit /\ ReconIdle /\ ConfIdle /\ ParIdle /\ CalIdle /\ ObsIdle /\ TradIdle
    /\ CfgImported /\ ChkIdle /\ IrIdle /\ StgIdle

SpecCache == InitCache /\ [][IcNext]_vars

\* Every thread is between calls.
AllReturned == \A t \in Threads : ic_pc[t] = "idle"

\* The entry is within its time to live on the day `now`.
Fresh(entry, now) ==
    /\ entry.last_updated[1] = "iso"
    /\ now <= entry.last_updated[2] + TtlDays

\* The str IRCache.set stores for its optional datetime argument.
Stored(last_earnings_datetime, otherwise) ==
    IF last_earnings_datetime = <<>> THEN otherwise
    ELSE <<"iso", last_earnings_datetime[1]>>

\* What the last set of a thread returned, against the cache it found.
SetAsSpecified(r) ==
    LET entry == r.value[1]
    IN  /\ entry.ir_url = r.ir_url
        /\ entry.last_updated = <<"iso", r.now>>
        /\ IF r.code \in DOMAIN r.before /\ r.before[r.code].ir_url = r.ir_url
           THEN /\ entry.success_count = r.before[r.code].success_count + 1
                /\ entry.ir_type = r.before[r.code].ir_type
                /\ entry.last_earnings_datetime =
                      Stored(r.last_earnings_datetime,
                             r.before[r.code].last_earnings_datetime)
           ELSE /\ entry.success_count = 1
                /\ entry.last_earnings_datetime =
                      Stored(r.last_earnings_datetime, <<>>)

\* What the last get of a thread returned, against the entries installed and
\* not deleted or cleared since.
GetAsSpecified(r) ==
    r.value = IF r.code \in DOMAIN r.before /\ Fresh(r.before[r.code], r.now)
              THEN <<r.before[r.code]>>
              ELSE <<>>

\* C23: IRCache.set semantics.  set on a code whose stored entry has the same
\* ir_url keeps that entry, increments its success_count by exactly one and
\* refreshes last_updated; set for a code with no entry or with a different
\* ir_url installs a new entry with success_count 1; get(code) returns the
\* most recently installed entry for the code if it has not been deleted or
\* cleared and is not expired, and None otherwise; delete returns True exactly
\* when an entry existed.
C23_SetSemantics ==
    \A t \in Threads :
        LET r == ic_ret[t]
        IN  /\ r.op = "set" => SetAsSpecified(r)
            /\ r.op = "get" => GetAsSpecified(r)
            /\ r.op = "delete" => r.value = <<r.code \in DOMAIN r.before>>
            /\ r.op = "clear" => r.value = <<Cardinality(DOMAIN r.before)>>

\* One thread's set found its URL stored and counted a second success, and
\* the other thread's get returned that entry.
C23_Witness ==
    /\ AllReturned
    /\ ic_ret["main"].op = "set"
    /\ ic_ret["main"].value[1].success_count = 2
    /\ ic_ret["worker"].op = "get"
    /\ ic_ret["worker"].value = ic_ret["main"].value

\* C24: cache persistence without lost updates.  After any interleaving of
\* set, delete and clear calls by one or several threads on one IRCache, with
\* every thread returned, the entries an IRCache created afterwards on the
\* same directory would load are exactly the in-memory map, and once a call
\* has saved, the "companies" object of the file is that map serialised;
\* nothing a concurrent set has stored is missing from it.
C24_NoLostUpdates ==
    (AllReturned /\ ic_loaded) =>
        /\ loaded(ic_file) = ic_cache
        /\ (\E t \in Threads :
                \/ ic_ret[t].op \in {"set", "clear"}
                \/ ic_ret[t].op = "delete" /\ ic_ret[t].value = <<TRUE>>)
              => ic_file = <<companies(ic_cache)>>

\* Both threads have set an entry, for different codes, and the file holds
\* both.
C24_Witness ==
    /\ AllReturned
    /\ ic_ret["main"].op = "set"
    /\ ic_ret["worker"].op = "set"
    /\ ic_ret["main"].code # ic_ret["worker"].code
    /\ ic_ret["worker"].before = <<>>
    /\ DOMAIN ic_file[1] = {ic_ret["main"].code, ic_ret["worker"].code}

----------------------------------------------------------------------------
(* get_calendar stage by stage: the fetch, the history and the IR tasks     *)
(* each handed to run_parallel, the merge, the reconciliation and the       *)
(* trading-hours flag done by the calling thread in between and after.      *)
(* The three sources are all asked and all have rows; what the history and  *)
(* the IR task of a code do is the environment's choice.                    *)

\* Settings.max_workers of the staged call.
StageWorkers == 2

\* The datetime cells the sources hand over, and pd.to_datetime(...,
\* errors="coerce") of a cell.
StampCells == {"15:00", "15:30"}
to_datetime(cell) ==
    IF cell = NaN THEN NaT ELSE IF cell = "15:00" THEN 900 ELSE 930

\* The codes a source lists.
listed(source) == DOMAIN fetched_rows(source)
StageCodes == UNION {listed(s) : s \in SourceNameSet}

\* The cells of every source: sbi's left open, matsui's 15:00 and
\* tradersweb's 15:30.
stamps_of(a) ==
    [s \in SourceNameSet |->
        [code \in listed(s) |->
            CASE s = "sbi" -> a
              [] s = "matsui" -> "15:00"
              [] s = "tradersweb" -> "15:30"]]
StageStamps == {stamps_of(a) : a \in StampCells}

\* The DataFrame the source's fetch returns.
stage_table(source, stamps) ==
    [columns |-> <<"code", "name", "datetime">>,
     rows |-> [code \in listed(source) |->
                 [name |-> spelling(source), datetime |-> stamps[source][code]]]]

\* What _fetch_history(code) and _get_ir_datetime(code) return when they
\* return: values of the code's own.  past_dts is a list, None when empty
\* (`past_dts if past_dts else None`), written <<>>.
inferred_of(code) == 900 + 30 * (code - 1)
past_of(code) == <<inferred_of(code) - 1440>>
ir_of(code) == 600 + 30 * code

\* The rows of the table in order, a row giving a value to every column.
\* pd.merge(how="outer") sorts the rows by the join key.
RECURSIVE sorted_codes(_)
sorted_codes(S) ==
    IF S = {} THEN <<>>
    ELSE LET least == CHOOSE c \in S : \A d \in S : c <= d
         IN  <<least>> \o sorted_codes(S \ {least})

\* The merged table as rows: the code, the name, and each source's datetime
\* column coerced by pd.to_datetime.
rows_of(table) ==
    LET codes == sorted_codes(DOMAIN table.rows)
    IN  [i \in 1..Len(codes) |->
            [c \in {table.columns[j] : j \in 1..Len(table.columns)} |->
                IF c = "code" THEN codes[i]
                ELSE IF c = "name" THEN table.rows[codes[i]][c]
                ELSE to_datetime(table.rows[codes[i]][c])]]

\* df[col] = values: the column appended (or replaced), one value per row.
set_column(rows, col, values) ==
    [i \in 1..Len(rows) |->
        [c \in DOMAIN rows[i] \cup {col} |->
            IF c = col THEN values[i] ELSE rows[i][c]]]
with_column(columns, col) ==
    IF in_list(col, columns) THEN columns ELSE Append(columns, col)

\* Mutant of results_of_code: the results are taken in the order they came in.
results_of_position(rows, keys, j) ==
    IF j <= Len(keys) THEN keys[j] ELSE 0

\* `results[code_str]` for the code of row j: the task submitted under that
\* code when its result is in the dict, 0 when it is not.
results_of_code(rows, keys, j) ==
    LET k == CHOOSE k \in 1..Len(rows) : rows[k].code = rows[j].code
    IN  IF in_list(k, keys) THEN k ELSE 0

\* Mutant of reconcile: the datetime columns are gone through in the order
\* the table has them.
reconcile_in_table_order(columns, r) ==
    LET cols == SelectSeq(columns, LAMBDA c : c \in DatetimeColSet /\ notna(r[c]))
        vals == append_new(<<>>, [i \in 1..Len(cols) |-> r[cols[i]]])
    IN  [candidates |-> vals,
         datetime |-> first_or_NaT(vals),
         confidence |-> build_row_candidates(ElemsOf(columns), r).confidence]

\* build_row_candidates(row) on a table with the columns given.
reconcile(columns, r) == build_row_candidates(ElemsOf(columns), r)

\* Mutant of run_parallel_returned: the caller goes on with the first result
\* that comes in.
run_parallel_first_result ==
    pc \in {"collect", "join", "done"} /\ results_keys # <<>>

\* `results = run_parallel(...)` has returned.
run_parallel_returned == pc = "done"

\* The call run_parallel(tasks, max_workers): a new executor, nothing
\* submitted yet.
call_run_parallel(new_tasks, workers) ==
    /\ tasks' = new_tasks
    /\ max_workers' = workers
    /\ pc' = "call"
    /\ submitted' = 0
    /\ work_queue' = <<>>
    /\ num_threads' = 0
    /\ idle_semaphore' = 0
    /\ running' = {}
    /\ releasing' = 0
    /\ future_state' = [n \in DOMAIN new_tasks |-> "NONE"]
    /\ yielded' = {}
    /\ results' = <<>>
    /\ results_keys' = <<>>
    /\ warned' = {}
    /\ raised' = FALSE
    /\ runs' = [n \in DOMAIN new_tasks |-> 0]

\* The tasks of the stage whose callable has not finished.
unfinished(stage) ==
    {<<stage, n>> : n \in {m \in TaskNames : future_state[m] # "FINISHED"}}

StgInit ==
    /\ stg_pc = "start"
    /\ stg_sources \in {o \in SourceOrders : Len(o) = Len(SourceNames)}
    /\ stg_inputs \in [stamps : StageStamps,
                       history : [StageCodes -> {"returns", "raises"}],
                       ir : [StageCodes -> {"returns", "raises"}]]
    /\ stg_data_order = <<>>
    /\ stg_columns = <<>>
    /\ stg_rows = <<>>
    /\ stg_unfinished = {}
    /\ stg_pool = {}
    /\ stg_main = <<>>

\* `raw_results = run_parallel(tasks, ...)`, one s.fetch(date) per source.
StgCallFetch ==
    /\ stg_pc = "start"
    /\ call_run_parallel([i \in 1..Len(stg_sources) |-> "returns"], StageWorkers)
    /\ stg_pool' = stg_pool \cup {"fetch"}
    /\ stg_pc' = "fetch"
    /\ UNCHANGED <<reconVars, confVars, calVars, obsVars, tradVars, cfgVars,
                   chkVars, irVars, icVars, stg_sources, stg_inputs,
                   stg_data_order, stg_columns, stg_rows, stg_unfinished,
                   stg_main>>

\* source_data filled from raw_results.items() and merged.
StgMerge ==
    /\ stg_pc = "fetch"
    /\ run_parallel_returned
    /\ LET order == [i \in 1..Len(results_keys) |-> stg_sources[results_keys[i]]]
           data == [i \in 1..Len(order) |->
                      <<order[i], stage_table(order[i], stg_inputs.stamps)>>]
           table == merge_sources(data)
       IN  /\ stg_data_order' = order
           /\ stg_columns' = table.columns
           /\ stg_rows' = rows_of(table)
    /\ stg_unfinished' = stg_unfinished \cup unfinished("fetch")
    /\ stg_main' = Append(stg_main, "_merge_sources")
    /\ stg_pc' = "merged"
    /\ UNCHANGED <<reconVars, confVars, parVars, calVars, obsVars, tradVars,
                   cfgVars, chkVars, irVars, icVars, stg_sources, stg_inputs,
                   stg_pool>>

\* _add_history: one _fetch_history task per code of the table.
StgCallHistory ==
    /\ stg_pc = "merged"
    /\ call_run_parallel([i \in 1..Len(stg_rows) |->
                             stg_inputs.history[stg_rows[i].code]],
                         StageWorkers)
    /\ stg_pool' = stg_pool \cup {"_fetch_history"}
    /\ stg_pc' = "history"
    /\ UNCHANGED <<reconVars, confVars, calVars, obsVars, tradVars, cfgVars,
                   chkVars, irVars, icVars, stg_sources, stg_inputs,
                   stg_data_order, stg_columns, stg_rows, stg_unfinished,
                   stg_main>>

\* _add_history: the two lists built row by row from the results, and the
\* two columns set.
StgAddHistory ==
    /\ stg_pc = "history"
    /\ run_parallel_returned
    /\ LET task(j) == results_of_code(stg_rows, results_keys, j)
           inferred == [j \in 1..Len(stg_rows) |->
                          IF task(j) = 0 THEN NaT
                          ELSE inferred_of(stg_rows[task(j)].code)]
           past_list == [j \in 1..Len(stg_rows) |->
                           IF task(j) = 0 THEN <<>>
                           ELSE past_of(stg_rows[task(j)].code)]
       IN  stg_rows' = set_column(set_column(stg_rows, "inferred_datetime", inferred),
                                  "past_datetimes", past_list)
    /\ stg_columns' = with_column(with_column(stg_columns, "inferred_datetime"),
                                  "past_datetimes")
    /\ stg_unfinished' = stg_unfinished \cup unfinished("_fetch_history")
    /\ stg_main' = Append(stg_main, "_add_history")
    /\ stg_pc' = "history_added"
    /\ UNCHANGED <<reconVars, confVars, parVars, calVars, obsVars, tradVars,
                   cfgVars, chkVars, irVars, icVars, stg_sources, stg_inputs,
                   stg_data_order, stg_pool>>

\* _add_ir: one _get_ir_datetime task per code of the table.
StgCallIr ==
    /\ stg_pc = "history_added"
    /\ call_run_parallel([i \in 1..Len(stg_rows) |->
                             stg_inputs.ir[stg_rows[i].code]],
                         StageWorkers)
    /\ stg_pool' = stg_pool \cup {"_get_ir_datetime"}
    /\ stg_pc' = "ir"
    /\ UNCHANGED <<reconVars, confVars, calVars, obsVars, tradVars, cfgVars,
                   chkVars, irVars, icVars, stg_sources, stg_inputs,
                   stg_data_order, stg_columns, stg_rows, stg_unfinished,
                   stg_main>>

\* _add_ir: results.get(code_str, pd.NaT) row by row, and the column set.
StgAddIr ==
    /\ stg_pc = "ir"
    /\ run_parallel_returned
    /\ LET task(j) == results_of_code(stg_rows, results_keys, j)
           ir_datetimes == [j \in 1..Len(stg_rows) |->
                              IF task(j) = 0 THEN NaT
                              ELSE ir_of(stg_rows[task(j)].code)]
       IN  stg_rows' = set_column(stg_rows, "ir_datetime", ir_datetimes)
    /\ stg_columns' = with_column(stg_columns, "ir_datetime")
    /\ stg_unfinished' = stg_unfinished \cup unfinished("_get_ir_datetime")
    /\ stg_main' = Append(stg_main, "_add_ir")
    /\ stg_pc' = "ir_added"
    /\ UNCHANGED <<reconVars, confVars, parVars, calVars, obsVars, tradVars,
                   cfgVars, chkVars, irVars, icVars, stg_sources, stg_inputs,
                   stg_data_order, stg_pool>>

\* _build_candidates: df.apply(build_row_candidates, axis=1) by the caller,
\* and the three columns set.
StgBuildCandidates ==
    /\ stg_pc = "ir_added"
    /\ LET built_rows == [j \in 1..Len(stg_rows) |-> reconcile(stg_columns, stg_rows[j])]
       IN  stg_rows' =
              set_column(
                set_column(
                  set_column(stg_rows, "candidate_datetimes",
                             [j \in 1..Len(stg_rows) |-> built_rows[j].candidates]),
                  "datetime",
                  [j \in 1..Len(stg_rows) |-> built_rows[j].datetime]),
                "confidence",
                [j \in 1..Len(stg_rows) |-> built_rows[j].confidence])
    /\ stg_columns' = with_column(with_column(with_column(stg_columns,
                          "candidate_datetimes"), "datetime"), "confidence")
    /\ stg_unfinished' = stg_unfinished \cup unfinished("_get_ir_datetime")
    /\ stg_main' = Append(stg_main, "_build_candidates")
    /\ stg_pc' = "candidates"
    /\ UNCHANGED <<reconVars, confVars, parVars, calVars, obsVars, tradVars,
                   cfgVars, chkVars, irVars, icVars, stg_sources, stg_inputs,
                   stg_data_order, stg_pool>>

\* merged["datetime"].apply(is_during_trading_hours) by the caller, the
\* columns put in output order and the table returned.
StgTradingHours ==
    /\ stg_pc = "candidates"
    /\ stg_rows' = set_column(stg_rows, "during_trading_hours",
                              [j \in 1..Len(stg_rows) |->
                                  is_during_trading_hours(stg_rows[j]["datetime"])])
    /\ stg_columns' = SelectSeq(OUTPUT_COLUMNS,
                                LAMBDA c : in_list(c, with_column(stg_columns,
                                                        "during_trading_hours")))
    /\ stg_main' = Append(stg_main, "is_during_trading_hours")
    /\ stg_pc' = "returned"
    /\ UNCHANGED <<reconVars, confVars, parVars, calVars, obsVars, tradVars,
                   cfgVars, chkVars, irVars, icVars, stg_sources, stg_inputs,
                   stg_data_order, stg_unfinished, stg_pool>>

StgNext ==
    \/ StgCallFetch
    \/ ParRun
    \/ StgMerge
    \/ StgCallHistory
    \/ StgAddHistory
    \/ StgCallIr
    \/ StgAddIr
    \/ StgBuildCandidates
    \/ StgTradingHours

InitStages ==
    StgInit /\ ReconIdle /\ ConfIdle /\ ParIdle /\ CalIdle /\ ObsIdle /\ TradIdle
    /\ CfgImported /\ ChkIdle /\ IrIdle /\ IcIdle

SpecStages == InitStages /\ [][StgNext]_vars

\* The stages get_calendar runs on the calling thread, in order, and the
\* kinds of callable it hands to run_parallel.
MainStages ==
    <<"_merge_sources", "_add_history", "_add_ir", "_build_candidates",
      "is_during_trading_hours">>
PoolStages == {"fetch", "_fetch_history", "_get_ir_datetime"}

\* No task of the last run_parallel call is queued, running or unfinished,
\* and no worker thread is left.
PoolDrained ==
    /\ work_queue = <<>>
    /\ running = {}
    /\ num_threads = 0
    /\ \A n \in TaskNames : future_state[n] = "FINISHED"

\* C27: stage ordering within one get_calendar call.  All fetch tasks have
\* finished before merging starts, all history tasks before any IR task
\* starts, and reconciliation starts only after every history and IR task has
\* finished; reconciliation and the trading-hours classification run on the
\* calling thread and are never submitted to the worker pool.
C27_StageOrdering ==
    /\ stg_unfinished = {}
    /\ stg_pc \in {"merged", "history_added", "ir_added", "candidates", "returned"}
          => PoolDrained
    /\ stg_pc = "history" => stg_main = SubSeq(MainStages, 1, 1)
    /\ stg_pc = "ir" => stg_main = SubSeq(MainStages, 1, 2)
    /\ stg_pc = "candidates" => stg_main = SubSeq(MainStages, 1, 4)
    /\ stg_pc = "returned" => stg_main = MainStages
    /\ stg_main = SubSeq(MainStages, 1, Len(stg_main))
    /\ stg_pool \subseteq PoolStages

\* A call that went through every stage, with a history task and an IR task
\* that raised.
C27_Witness ==
    /\ stg_pc = "returned"
    /\ stg_pool = PoolStages
    /\ stg_main = MainStages
    /\ \E c \in StageCodes : stg_inputs.history[c] = "raises"
    /\ warned # {}

\* The columns _add_history and _add_ir have set by now.
HistoryAdded ==
    stg_pc \in {"history_added", "ir", "ir_added", "candidates", "returned"}
IrAdded == stg_pc \in {"ir_added", "candidates", "returned"}

\* C28: per-code results stay aligned under partial failure.  After
\* _add_history and _add_ir every row of the merged table is in its original
\* position, and its inferred_datetime, past_datetimes and ir_datetime are
\* the results of the task keyed by the row's own code; a row whose task
\* raised gets absent values (NaT / None) while the other rows keep theirs,
\* for every completion order of the tasks.
C28_AlignedByCode ==
    HistoryAdded =>
        /\ [j \in 1..Len(stg_rows) |-> stg_rows[j]["code"]] = sorted_codes(StageCodes)
        /\ \A j \in 1..Len(stg_rows) :
              LET code == stg_rows[j]["code"]
                  answered == stg_inputs.history[code] = "returns"
              IN  /\ stg_rows[j]["inferred_datetime"] =
                        (IF answered THEN inferred_of(code) ELSE NaT)
                  /\ stg_rows[j]["past_datetimes"] =
                        (IF answered THEN past_of(code) ELSE <<>>)
                  /\ IrAdded =>
                        stg_rows[j]["ir_datetime"] =
                           (IF stg_inputs.ir[code] = "returns"
                            THEN ir_of(code) ELSE NaT)

\* The history task of the first code raised and that of the second
\* returned; the IR tasks both returned, the second before the first.
C28_Witness ==
    /\ stg_pc = "ir_added"
    /\ stg_inputs.history = (1 :> "raises") @@ (2 :> "returns")
    /\ results_keys = <<2, 1>>
    /\ stg_rows[1]["inferred_datetime"] = NaT
    /\ stg_rows[2]["inferred_datetime"] = inferred_of(2)
    /\ stg_rows[1]["ir_datetime"] = ir_of(1)

\* The row of the code as the inputs alone give it: every datetime column,
\* a source's cell where the source lists the code.
InputRow(code) ==
    [c \in DatetimeColSet |->
        CASE c = "ir_datetime" ->
                IF stg_inputs.ir[code] = "returns" THEN ir_of(code) ELSE NaT
          [] c = "inferred_datetime" ->
                IF stg_inputs.history[code] = "returns" THEN inferred_of(code) ELSE NaT
          [] OTHER ->
                LET s == CHOOSE s \in SourceNameSet : source_datetime(s) = c
                IN  IF code \in listed(s)
                    THEN to_datetime(stg_inputs.stamps[s][code])
                    ELSE NaT]

\* C30: reconciliation is schedule-independent.  For fixed source tables and
\* fixed per-code history and IR results, the selected datetime, confidence
\* and candidate_datetimes that get_calendar reports for each code are the
\* same for every completion order of the fetch, history and IR tasks and for
\* every order of the sources argument: they are those of the inputs alone.
C30_ScheduleIndependent ==
    stg_pc \in {"candidates", "returned"} =>
        \A j \in 1..Len(stg_rows) :
            LET expected == build_row_candidates(DatetimeColSet,
                                                 InputRow(stg_rows[j]["code"]))
            IN  /\ stg_rows[j]["datetime"] = expected.datetime
                /\ stg_rows[j]["confidence"] = expected.confidence
                /\ stg_rows[j]["candidate_datetimes"] = expected.candidates

\* A call with the sources listed and answering in orders other than the
\* registration order, scrapers that disagree and no IR datetime.
C30_Witness ==
    /\ stg_pc = "returned"
    /\ stg_sources[1] = "tradersweb"
    /\ stg_data_order[1] = "matsui"
    /\ stg_data_order # stg_sources
    /\ stg_rows[1]["confidence"] = "medium"
    /\ stg_rows[1]["datetime"] = 930
    /\ Len(stg_rows[1]["candidate_datetimes"]) = 2
    /\ stg_rows[2]["confidence"] = "highest"

====
